---- MODULE Spec2Model ----
(***************************************************************************)
(* The block life cycle of core/src/block.rs: PendingBlock -> ChainedBlock *)
(* -> ValidBlock -> ValidSignedBlock -> CommittedBlock, the CandidateBlock *)
(* wire form with its revalidation, and the in-memory Chain with its       *)
(* double-ended iterator.                                                  *)
(*                                                                         *)
(* Hashes are ideal: a hash is the tagged, length-prefixed sequence of the *)
(* bytes it was taken from, so two hashes are equal exactly when their     *)
(* inputs are.  TLC's integers are 32 bits wide, so the u64 fields of the  *)
(* source are modelled with the modulus U64Modulus = 2^30; the arguments   *)
(* that reach the wrap-around are U64_MAX and its neighbours.              *)
(***************************************************************************)
EXTENDS Integers, Sequences, FiniteSets, TLC

VARIABLES
    blk,      \* the block value in flight, in exactly one life-cycle state
    hist,     \* history of blk: where it came from, the states it has been in
    lastop,   \* the last block operation: its name, arguments, input and result
    blocks,   \* Chain.blocks: height -> committed block
    iter,     \* the ChainIterator in use (pos_front, pos_back) and its history
    itop,     \* the last iterator call: its name, argument and result
    readers   \* the threads reading the Chain while the writer pushes to it

vars == <<blk, hist, lastop, blocks, iter, itop, readers>>

-----------------------------------------------------------------------------
(* Bounds of the model *)

\* longest transaction list given to PendingBlock::new
MaxTxs == 2
\* greatest height pushed to the Chain
MaxHeight == 2
\* number of calls made on one ChainIterator
MaxCalls == 3
\* how many times a block is sent as a candidate and revalidated
MaxTrips == 1
\* heights the single writer pushes while the readers run
MaxPushed == 3

\* transaction payloads; payload p carries p instructions
Txs == 1..MaxTxs
\* key pairs whose signing succeeds, and one whose signing fails
Keys == {"K1", "K2"}
BadKey == "K0"
\* the key pairs of the node that signs a block first
FirstSigners == {"K1", BadKey}
Timestamps == {5}
\* event recommendations handed to PendingBlock::new
EventLists == {<<"e1">>}
Topologies == {1}

\* u64 arithmetic, scaled to what TLC's integers hold
U64Modulus == 2 ^ 30
U64_MAX == U64Modulus - 1

-----------------------------------------------------------------------------
(* Hash, Merkle root, encoding *)

\* a hash value: tag, length of the hashed bytes, the bytes
H(tag, bytes) == <<tag, Len(bytes)>> \o bytes

\* Hash::zeroed()
Zeroed == H(0, <<>>)

\* From<EmptyChainHash<T>> for HashOf<T>
EmptyChainHash == Zeroed

RECURSIVE Concat(_)
Concat(ss) == IF ss = <<>> THEN <<>> ELSE Head(ss) \o Concat(Tail(ss))

\* hash of a transaction in any of its forms: the hash of its payload
TxHash(tx) == H(1, <<tx.payload>>)

\* hashes.collect::<MerkleTree<_>>().hash(): None for no leaves
MerkleTree_hash(hashes) ==
    IF hashes = <<>> THEN <<>> ELSE <<H(2, Concat(hashes))>>

\* txs.iter().map(hash).collect::<MerkleTree<_>>().hash().unwrap_or(Hash::zeroed())
MerkleRootOrZero(txs) ==
    LET hashes == [i \in 1..Len(txs) |-> TxHash(txs[i])]
        root == MerkleTree_hash(hashes)
    IN IF root = <<>> THEN Zeroed ELSE root[1]

\* Option<Topology>: <<>> is None, <<t>> is Some(t)
EncodeOption(o) == IF o = <<>> THEN <<0>> ELSE <<1, o[1]>>

\* the Encode derive of BlockHeader: the fields in declaration order
EncodeHeader(h) ==
    <<h.timestamp, h.consensus_estimation, h.height>>
        \o h.previous_block_hash
        \o h.transactions_hash
        \o h.rejected_transactions_hash
        \o EncodeOption(h.genesis_topology)

\* HashOf::new(&header)
HashOf(header) == H(3, EncodeHeader(header))

DEFAULT_BLOCK_TIME_MS == 1000
DEFAULT_COMMIT_TIME_LIMIT_MS == 2000
DEFAULT_CONSENSUS_ESTIMATION_MS ==
    DEFAULT_BLOCK_TIME_MS + (DEFAULT_COMMIT_TIME_LIMIT_MS \div 2)

NoHeader ==
    [timestamp |-> 0, consensus_estimation |-> 0, height |-> 0,
     previous_block_hash |-> Zeroed, transactions_hash |-> Zeroed,
     rejected_transactions_hash |-> Zeroed, genesis_topology |-> <<>>]

\* BlockHeader::is_genesis
is_genesis(header) == header.height = 1

-----------------------------------------------------------------------------
(* Transactions, the world state view and the transaction validator *)

\* a transaction in one of its forms: Signed, Accepted, Valid, Rejected
Tx(p, form, reason) == [payload |-> p, form |-> form, rejection_reason |-> reason]

\* VersionedSignedTransaction::from(valid or rejected transaction)
VersionedSignedTransaction_from(tx) == Tx(tx.payload, "Signed", "")

\* a world state view: which transactions are already committed, which pass
\* the permission check (skipped for the genesis block) and which execute
WorldStateView(committed, permitted, executable) ==
    [committed |-> committed, permitted |-> permitted, executable |-> executable]

NoWsv == WorldStateView({}, {}, {})

\* DEFAULT_TORII_MAX_INSTRUCTION_NUMBER
DEFAULT_TORII_MAX_INSTRUCTION_NUMBER == 2 ^ 12

NoValidator == [transaction_limits |-> [max_instruction_number |-> 0]]

DefaultValidator ==
    [transaction_limits |->
        [max_instruction_number |-> DEFAULT_TORII_MAX_INSTRUCTION_NUMBER]]

\* the validator and world state view a node runs a block operation with:
\* everything valid; transaction 1 alone permitted; no transaction
\* executing; transaction 1 already committed and a limit of one
\* instruction; a limit of one instruction and nothing committed
Envs ==
    { [validator |-> DefaultValidator, wsv |-> WorldStateView({}, Txs, Txs)],
      [validator |-> DefaultValidator, wsv |-> WorldStateView({}, {1}, Txs)],
      [validator |-> DefaultValidator, wsv |-> WorldStateView({}, Txs, {})],
      [validator |-> [transaction_limits |-> [max_instruction_number |-> 1]],
       wsv |-> WorldStateView({1}, Txs, Txs)],
      [validator |-> [transaction_limits |-> [max_instruction_number |-> 1]],
       wsv |-> WorldStateView({}, Txs, Txs)] }

\* the environments validate is run with: validate reads neither the
\* limits nor the committed transactions, so one environment with a limit
\* is enough there
ValidateEnvs ==
    Envs \ { [validator |->
                 [transaction_limits |-> [max_instruction_number |-> 1]],
             wsv |-> WorldStateView({}, Txs, Txs)] }

NoEnv == [validator |-> NoValidator, wsv |-> NoWsv]

\* transaction.is_in_blockchain(wsv)
is_in_blockchain(tx, wsv) == tx.payload \in wsv.committed

\* AcceptedTransaction::from_transaction(tx, limits): the limits check
AcceptedTransaction_from_transaction(tx, limits) ==
    IF tx.payload <= limits.max_instruction_number
    THEN [ok |-> TRUE, tx |-> Tx(tx.payload, "Accepted", "")]
    ELSE [ok |-> FALSE, tx |-> tx]

\* TransactionValidator::validate(tx, is_genesis, wsv):
\* Ok(valid transaction) or Err(rejected transaction with its reason)
TransactionValidator_validate(tx, genesis, wsv) ==
    IF ~genesis /\ tx.payload \notin wsv.permitted
    THEN [ok |-> FALSE, tx |-> Tx(tx.payload, "Rejected", "NotPermitted")]
    ELSE IF tx.payload \notin wsv.executable
    THEN [ok |-> FALSE, tx |-> Tx(tx.payload, "Rejected", "InstructionFailed")]
    ELSE [ok |-> TRUE, tx |-> Tx(tx.payload, "Valid", "")]

-----------------------------------------------------------------------------
(* Signatures *)

\* SignatureOf::from_hash(key_pair, hash)
SignatureOf_from_hash(key_pair, hash) ==
    IF key_pair = BadKey
    THEN [ok |-> FALSE, signature |-> [public_key |-> key_pair, payload |-> Zeroed]]
    ELSE [ok |-> TRUE, signature |-> [public_key |-> key_pair, payload |-> hash]]

\* Signature::verify
SignatureOf_verify(signature, hash) == signature.payload = hash

\* SignaturesOf::from(signature)
SignaturesOf_from(signature) == {signature}

\* SignaturesOf::insert: the set is keyed by the signer's public key
SignaturesOf_insert(signatures, signature) ==
    IF \E s \in signatures : s.public_key = signature.public_key
    THEN signatures
    ELSE signatures \cup {signature}

\* SignaturesOf::verified_by_hash
SignaturesOf_verified_by_hash(signatures, hash) ==
    {s \in signatures : SignatureOf_verify(s, hash)}

-----------------------------------------------------------------------------
(* Block values and results *)

Block(state, timestamp, header, transactions, rejected, signatures, events) ==
    [state |-> state, timestamp |-> timestamp, header |-> header,
     transactions |-> transactions, rejected_transactions |-> rejected,
     signatures |-> signatures, event_recommendations |-> events]

NoBlock == Block("None", 0, NoHeader, <<>>, <<>>, {}, <<>>)

\* calls: the admissions and validations of transactions the call made, in
\* order (revalidate alone fills it)
Ok(block) ==
    [ok |-> TRUE, err |-> "", cause |-> "", expected |-> <<>>, actual |-> <<>>,
     block |-> block, calls |-> <<>>]

Err(err, cause, expected, actual) ==
    [ok |-> FALSE, err |-> err, cause |-> cause, expected |-> expected,
     actual |-> actual, block |-> NoBlock, calls |-> <<>>]

\* an arithmetic overflow with overflow checks on
Panic == Err("panic", "attempt to add with overflow", <<>>, <<>>)

\* PendingBlock::new; timestamp is current_time()
PendingBlock_new(transactions, event_recommendations, timestamp) ==
    Block("Pending", timestamp, NoHeader, transactions, <<>>, {},
          event_recommendations)

\* PendingBlock::chain taking the height as it is given
PendingBlock_chain_same_height(b, height, previous_block_hash, overflow_checks) ==
    Ok(Block("Chained", 0,
             [timestamp |-> b.timestamp,
              consensus_estimation |-> DEFAULT_CONSENSUS_ESTIMATION_MS,
              height |-> height,
              previous_block_hash |-> previous_block_hash,
              transactions_hash |-> Zeroed,
              rejected_transactions_hash |-> Zeroed,
              genesis_topology |-> <<>>],
             b.transactions, <<>>, {}, b.event_recommendations))

\* PendingBlock::chain; overflow_checks is the build's setting
PendingBlock_chain(b, height, previous_block_hash, overflow_checks) ==
    IF height + 1 > U64_MAX /\ overflow_checks
    THEN Panic
    ELSE Ok(Block("Chained", 0,
                  [timestamp |-> b.timestamp,
                   consensus_estimation |-> DEFAULT_CONSENSUS_ESTIMATION_MS,
                   height |-> (height + 1) % U64Modulus,
                   previous_block_hash |-> previous_block_hash,
                   transactions_hash |-> Zeroed,
                   rejected_transactions_hash |-> Zeroed,
                   genesis_topology |-> <<>>],
                  b.transactions, <<>>, {}, b.event_recommendations))

\* PendingBlock::chain_first_with_genesis_topology that leaves the topology
\* out of the header
PendingBlock_chain_first_dropping_topology(b, genesis_topology) ==
    Block("Chained", 0,
          [timestamp |-> b.timestamp,
           consensus_estimation |-> DEFAULT_CONSENSUS_ESTIMATION_MS,
           height |-> 1,
           previous_block_hash |-> EmptyChainHash,
           transactions_hash |-> Zeroed,
           rejected_transactions_hash |-> Zeroed,
           genesis_topology |-> <<>>],
          b.transactions, <<>>, {}, b.event_recommendations)

\* PendingBlock::chain_first_with_genesis_topology
PendingBlock_chain_first_with_genesis_topology(b, genesis_topology) ==
    Block("Chained", 0,
          [timestamp |-> b.timestamp,
           consensus_estimation |-> DEFAULT_CONSENSUS_ESTIMATION_MS,
           height |-> 1,
           previous_block_hash |-> EmptyChainHash,
           transactions_hash |-> Zeroed,
           rejected_transactions_hash |-> Zeroed,
           genesis_topology |-> <<genesis_topology>>],
          b.transactions, <<>>, {}, b.event_recommendations)

\* PendingBlock::chain_first
PendingBlock_chain_first(b) ==
    Block("Chained", 0,
          [timestamp |-> b.timestamp,
           consensus_estimation |-> DEFAULT_CONSENSUS_ESTIMATION_MS,
           height |-> 1,
           previous_block_hash |-> EmptyChainHash,
           transactions_hash |-> Zeroed,
           rejected_transactions_hash |-> Zeroed,
           genesis_topology |-> <<>>],
          b.transactions, <<>>, {}, b.event_recommendations)

\* the validator's verdict on each transaction of a list, in order
Verdicts(txs, genesis, wsv) ==
    [i \in 1..Len(txs) |-> TransactionValidator_validate(txs[i], genesis, wsv)]

IsOk(r) == r.ok
IsErr(r) == ~r.ok
TxsOf(rs) == [i \in 1..Len(rs) |-> rs[i].tx]

\* ChainedBlock::validate that drops the transactions the validator rejects
ChainedBlock_validate_dropping_rejected(b, transaction_validator, wsv) ==
    LET verdicts == Verdicts(b.transactions, is_genesis(b.header), wsv)
        txs == TxsOf(SelectSeq(verdicts, IsOk))
        header == [b.header EXCEPT
                     !.transactions_hash = MerkleRootOrZero(txs),
                     !.rejected_transactions_hash = MerkleRootOrZero(<<>>)]
    IN Block("Valid", 0, header, txs, <<>>, {}, b.event_recommendations)

\* ChainedBlock::validate leaving the root of the rejected transactions unset
ChainedBlock_validate_no_rejected_root(b, transaction_validator, wsv) ==
    LET verdicts == Verdicts(b.transactions, is_genesis(b.header), wsv)
        txs == TxsOf(SelectSeq(verdicts, IsOk))
        rejected == TxsOf(SelectSeq(verdicts, IsErr))
        header == [b.header EXCEPT !.transactions_hash = MerkleRootOrZero(txs)]
    IN Block("Valid", 0, header, txs, rejected, {}, b.event_recommendations)

\* ChainedBlock::validate
ChainedBlock_validate(b, transaction_validator, wsv) ==
    LET verdicts == Verdicts(b.transactions, is_genesis(b.header), wsv)
        txs == TxsOf(SelectSeq(verdicts, IsOk))
        rejected == TxsOf(SelectSeq(verdicts, IsErr))
        header == [b.header EXCEPT
                     !.transactions_hash = MerkleRootOrZero(txs),
                     !.rejected_transactions_hash = MerkleRootOrZero(rejected)]
    IN Block("Valid", 0, header, txs, rejected, {}, b.event_recommendations)

\* ChainedBlock::hash, ValidBlock::hash, ValidSignedBlock::hash,
\* CandidateBlock::hash, CommittedBlock::hash
ChainedBlock_hash(b) == HashOf(b.header)
ValidBlock_hash(b) == HashOf(b.header)
ValidSignedBlock_hash(b) == HashOf(b.header)
CandidateBlock_hash(b) == HashOf(b.header)
CommittedBlock_hash(b) == HashOf(b.header)

\* PipelineStatus::Validating, ::Committed, ::Rejected(reason)
PipelineStatus(kind, reason) == [kind |-> kind, reason |-> reason]

\* PipelineEvent::new(entity_kind, status, hash).into()
PipelineEvent_new(entity_kind, status, hash) ==
    [entity_kind |-> entity_kind, status |-> status, hash |-> hash]

\* transactions.iter().map(|transaction| PipelineEvent::new(Transaction, ..))
TransactionEvents(txs, kind) ==
    [i \in 1..Len(txs) |->
        PipelineEvent_new("Transaction",
                          PipelineStatus(kind, IF kind = "Rejected"
                                               THEN txs[i].rejection_reason
                                               ELSE ""),
                          TxHash(txs[i]))]

\* Vec<Event>::from(&ValidSignedBlock) that emits the block event first
ValidSignedBlock_events_block_first(b) ==
    <<PipelineEvent_new("Block", PipelineStatus("Validating", ""),
                        ValidSignedBlock_hash(b))>>
    \o TransactionEvents(b.transactions, "Validating")
    \o TransactionEvents(b.rejected_transactions, "Validating")

\* Vec<Event>::from(&ValidSignedBlock)
ValidSignedBlock_events(b) ==
    TransactionEvents(b.transactions, "Validating")
    \o TransactionEvents(b.rejected_transactions, "Validating")
    \o <<PipelineEvent_new("Block", PipelineStatus("Validating", ""),
                           ValidSignedBlock_hash(b))>>

\* Vec<Event>::from(&CommittedBlock) chaining in the order the iterators
\* are declared: rejected_tx, tx, current_block
CommittedBlock_events_rejected_first(b) ==
    LET rejected_tx == TransactionEvents(b.rejected_transactions, "Rejected")
        tx == TransactionEvents(b.transactions, "Committed")
        current_block ==
            <<PipelineEvent_new("Block", PipelineStatus("Committed", ""),
                                CommittedBlock_hash(b))>>
    IN rejected_tx \o tx \o current_block

\* Vec<Event>::from(&CommittedBlock)
CommittedBlock_events(b) ==
    LET rejected_tx == TransactionEvents(b.rejected_transactions, "Rejected")
        tx == TransactionEvents(b.transactions, "Committed")
        current_block ==
            <<PipelineEvent_new("Block", PipelineStatus("Committed", ""),
                                CommittedBlock_hash(b))>>
    IN tx \o rejected_tx \o current_block

\* ValidBlock::sign that does not sign and hands the block on as Committed
ValidBlock_sign_into_committed(b, key_pair) ==
    Ok(Block("Committed", 0, b.header, b.transactions, b.rejected_transactions,
             {}, b.event_recommendations))

\* ValidBlock::sign
ValidBlock_sign(b, key_pair) ==
    LET signature == SignatureOf_from_hash(key_pair, ValidBlock_hash(b))
    IN IF ~signature.ok
       THEN Err("SignatureCreation", "Failed to sign block", <<>>, <<>>)
       ELSE Ok(Block("ValidSigned", 0, b.header, b.transactions,
                     b.rejected_transactions,
                     SignaturesOf_from(signature.signature),
                     b.event_recommendations))

\* ValidSignedBlock::commit that writes a new timestamp into the header
ValidSignedBlock_commit_restamped(b) ==
    Block("Committed", 0, [b.header EXCEPT !.timestamp = @ + 1], b.transactions,
          b.rejected_transactions, b.signatures, b.event_recommendations)

\* ValidSignedBlock::commit
ValidSignedBlock_commit(b) ==
    Block("Committed", 0, b.header, b.transactions, b.rejected_transactions,
          b.signatures, b.event_recommendations)

\* ValidSignedBlock::sign that starts a new signature set
ValidSignedBlock_sign_replacing(b, key_pair) ==
    LET signature == SignatureOf_from_hash(key_pair, ValidSignedBlock_hash(b))
    IN IF ~signature.ok
       THEN Err("SignatureCreation", "Failed to sign block", <<>>, <<>>)
       ELSE Ok([b EXCEPT !.signatures = SignaturesOf_from(signature.signature)])

\* ValidSignedBlock::sign
ValidSignedBlock_sign(b, key_pair) ==
    LET signature == SignatureOf_from_hash(key_pair, ValidSignedBlock_hash(b))
    IN IF ~signature.ok
       THEN Err("SignatureCreation", "Failed to sign block", <<>>, <<>>)
       ELSE Ok([b EXCEPT !.signatures =
                   SignaturesOf_insert(b.signatures, signature.signature)])

\* ValidSignedBlock::verified_signatures
ValidSignedBlock_verified_signatures(b) ==
    SignaturesOf_verified_by_hash(b.signatures, ValidSignedBlock_hash(b))

\* From<ValidSignedBlock> for CandidateBlock with the two lists exchanged
CandidateBlock_from_ValidSignedBlock_swapped(b) ==
    Block("Candidate", 0, b.header,
          [i \in 1..Len(b.rejected_transactions) |->
              VersionedSignedTransaction_from(b.rejected_transactions[i])],
          [i \in 1..Len(b.transactions) |->
              VersionedSignedTransaction_from(b.transactions[i])],
          b.signatures, b.event_recommendations)

\* From<ValidSignedBlock> for CandidateBlock
CandidateBlock_from_ValidSignedBlock(b) ==
    Block("Candidate", 0, b.header,
          [i \in 1..Len(b.transactions) |->
              VersionedSignedTransaction_from(b.transactions[i])],
          [i \in 1..Len(b.rejected_transactions) |->
              VersionedSignedTransaction_from(b.rejected_transactions[i])],
          b.signatures, b.event_recommendations)

\* From<CommittedBlock> for ValidSignedBlock that starts from an empty
\* signature set
ValidSignedBlock_from_CommittedBlock_unsigned(b) ==
    Block("ValidSigned", 0, b.header, b.transactions, b.rejected_transactions,
          {}, b.event_recommendations)

\* From<CommittedBlock> for ValidSignedBlock
ValidSignedBlock_from_CommittedBlock(b) ==
    Block("ValidSigned", 0, b.header, b.transactions, b.rejected_transactions,
          b.signatures, b.event_recommendations)

\* From<CommittedBlock> for CandidateBlock that leaves the signatures behind
CandidateBlock_from_CommittedBlock_unsigned(b) ==
    [CandidateBlock_from_ValidSignedBlock(ValidSignedBlock_from_CommittedBlock(b))
        EXCEPT !.signatures = {}]

\* From<CommittedBlock> for CandidateBlock
CandidateBlock_from_CommittedBlock(b) ==
    Block("Candidate", 0, b.header,
          [i \in 1..Len(b.transactions) |->
              VersionedSignedTransaction_from(b.transactions[i])],
          [i \in 1..Len(b.rejected_transactions) |->
              VersionedSignedTransaction_from(b.rejected_transactions[i])],
          b.signatures, b.event_recommendations)

-----------------------------------------------------------------------------
(* Revalidation of a candidate block *)

\* CandidateBlock::is_empty that finds no block empty
CandidateBlock_is_empty_never(b) == FALSE

\* CandidateBlock::is_empty with || in the place of &&
CandidateBlock_is_empty_either(b) ==
    b.transactions = <<>> \/ b.rejected_transactions = <<>>

\* CandidateBlock::is_empty
CandidateBlock_is_empty(b) ==
    b.transactions = <<>> /\ b.rejected_transactions = <<>>

\* CandidateBlock::has_committed_transactions that looks at the accepted
\* list alone
CandidateBlock_has_committed_transactions_accepted_only(b, wsv) ==
    \E i \in 1..Len(b.transactions) : is_in_blockchain(b.transactions[i], wsv)

\* CandidateBlock::has_committed_transactions
CandidateBlock_has_committed_transactions(b, wsv) ==
    \/ \E i \in 1..Len(b.transactions) : is_in_blockchain(b.transactions[i], wsv)
    \/ \E i \in 1..Len(b.rejected_transactions) :
          is_in_blockchain(b.rejected_transactions[i], wsv)

\* one accepted transaction of a candidate: admitted, then validated
RevalidateAccepted(tx, transaction_validator, genesis, wsv) ==
    LET accepted_tx == AcceptedTransaction_from_transaction(
                           tx, transaction_validator.transaction_limits)
    IN IF ~accepted_tx.ok
       THEN [ok |-> FALSE, tx |-> tx, cause |-> "TxAdmissionFailed"]
       ELSE LET v == TransactionValidator_validate(accepted_tx.tx, genesis, wsv)
            IN IF v.ok
               THEN [ok |-> TRUE, tx |-> v.tx, cause |-> ""]
               ELSE [ok |-> FALSE, tx |-> v.tx,
                     cause |-> "Failed to validate transaction"]

\* one rejected transaction of a candidate, admitted and validated, taken
\* as it comes out of the validator, valid or rejected
RevalidateRejected_either(tx, transaction_validator, genesis, wsv) ==
    LET accepted_tx == AcceptedTransaction_from_transaction(
                           tx, transaction_validator.transaction_limits)
    IN IF ~accepted_tx.ok
       THEN [ok |-> FALSE, tx |-> tx, cause |-> "TxAdmissionFailed"]
       ELSE LET v == TransactionValidator_validate(accepted_tx.tx, genesis, wsv)
            IN [ok |-> TRUE, tx |-> v.tx, cause |-> ""]

\* one rejected transaction of a candidate: admitted, then validated, and
\* the validator has to reject it
RevalidateRejected(tx, transaction_validator, genesis, wsv) ==
    LET accepted_tx == AcceptedTransaction_from_transaction(
                           tx, transaction_validator.transaction_limits)
    IN IF ~accepted_tx.ok
       THEN [ok |-> FALSE, tx |-> tx, cause |-> "TxAdmissionFailed"]
       ELSE LET v == TransactionValidator_validate(accepted_tx.tx, genesis, wsv)
            IN IF v.ok
               THEN [ok |-> FALSE, tx |-> v.tx,
                     cause |-> "Transactions which supposed to be rejected is valid"]
               ELSE [ok |-> TRUE, tx |-> v.tx, cause |-> ""]

\* filter_map in the place of try_fold: the vector of the results that are
\* Ok, failures dropped
TryFold_keeping_successes(rs) ==
    [ok |-> TRUE, txs |-> TxsOf(SelectSeq(rs, IsOk)), cause |-> "",
     pulled |-> Len(rs)]

\* collect into a vector first, then look for the first failure: every
\* element is mapped
TryFold_after_collect(rs) ==
    LET failed == {i \in 1..Len(rs) : ~rs[i].ok}
        first == CHOOSE i \in failed : \A j \in failed : i <= j
    IN IF failed = {}
       THEN [ok |-> TRUE, txs |-> TxsOf(rs), cause |-> "", pulled |-> Len(rs)]
       ELSE [ok |-> FALSE, txs |-> <<>>, cause |-> rs[first].cause,
             pulled |-> Len(rs)]

\* try_fold over the lazily mapped transactions: the vector of all results,
\* or the first failure; pulled is how many elements the fold took from the
\* iterator, which are the ones the map closures ran on
TryFold(rs) ==
    LET failed == {i \in 1..Len(rs) : ~rs[i].ok}
        first == CHOOSE i \in failed : \A j \in failed : i <= j
    IN IF failed = {}
       THEN [ok |-> TRUE, txs |-> TxsOf(rs), cause |-> "", pulled |-> Len(rs)]
       ELSE [ok |-> FALSE, txs |-> <<>>, cause |-> rs[first].cause,
             pulled |-> first]

\* the calls made for the elements a fold pulled from a list: each is
\* admitted, and validated when the admission succeeded (and_then)
CallsOf(list, txs, rs, pulled) ==
    Concat([i \in 1..pulled |->
        <<[list |-> list, index |-> i, payload |-> txs[i].payload,
           call |-> "from_transaction"]>>
        \o (IF rs[i].cause = "TxAdmissionFailed"
            THEN <<>>
            ELSE <<[list |-> list, index |-> i, payload |-> txs[i].payload,
                    call |-> "validate"]>>)])

\* CandidateBlock::revalidate from the destructuring of self on: the two
\* Merkle roots, the accepted transactions, the rejected transactions
RevalidateTransactions(b, transaction_validator, wsv) ==
    IF MerkleRootOrZero(b.transactions) # b.header.transactions_hash
    THEN Err("TxRootMismatch",
             "Block header transactions hash does not match actual transactions hash",
             <<>>, <<>>)
    ELSE IF MerkleRootOrZero(b.rejected_transactions)
               # b.header.rejected_transactions_hash
    THEN Err("RejectedRootMismatch",
             "Block header rejected transactions hash does not match actual rejected transaction hash",
             <<>>, <<>>)
    ELSE
      LET accepted_results ==
              [i \in 1..Len(b.transactions) |->
                  RevalidateAccepted(b.transactions[i], transaction_validator,
                                     is_genesis(b.header), wsv)]
          rejected_results ==
              [i \in 1..Len(b.rejected_transactions) |->
                  RevalidateRejected(b.rejected_transactions[i],
                                     transaction_validator,
                                     is_genesis(b.header), wsv)]
          transactions == TryFold(accepted_results)
          rejected_transactions == TryFold(rejected_results)
          accepted_calls == CallsOf("transactions", b.transactions,
                                    accepted_results, transactions.pulled)
          rejected_calls == CallsOf("rejected_transactions",
                                    b.rejected_transactions, rejected_results,
                                    rejected_transactions.pulled)
      IN IF ~transactions.ok
         THEN [Err("AcceptedTxRevalidationFailed", transactions.cause,
                   <<>>, <<>>) EXCEPT !.calls = accepted_calls]
         ELSE IF ~rejected_transactions.ok
         THEN [Err(IF rejected_transactions.cause = "TxAdmissionFailed"
                   THEN "TxAdmissionFailed" ELSE "RejectedTxRevalidatesClean",
                   rejected_transactions.cause, <<>>, <<>>)
               EXCEPT !.calls = accepted_calls \o rejected_calls]
         ELSE [Ok(Block("ValidSigned", 0, b.header, transactions.txs,
                        rejected_transactions.txs, b.signatures,
                        b.event_recommendations))
               EXCEPT !.calls = accepted_calls \o rejected_calls]

\* CandidateBlock::revalidate checking the height before the previous hash
CandidateBlock_revalidate_height_first(b, transaction_validator, wsv, latest_block, block_height, overflow_checks) ==
    IF CandidateBlock_is_empty(b)
    THEN Err("EmptyBlock", "Block is empty", <<>>, <<>>)
    ELSE IF CandidateBlock_has_committed_transactions(b, wsv)
    THEN Err("AlreadyCommitted", "Block has committed transactions", <<>>, <<>>)
    ELSE IF block_height + 1 > U64_MAX /\ overflow_checks
    THEN Panic
    ELSE IF (block_height + 1) % U64Modulus # b.header.height
    THEN Err("HeightMismatch", "Block heights are in an inconsistent state",
             <<(block_height + 1) % U64Modulus>>, <<b.header.height>>)
    ELSE IF latest_block # b.header.previous_block_hash
    THEN Err("PrevHashMismatch", "Latest block hash mismatch",
             latest_block, b.header.previous_block_hash)
    ELSE RevalidateTransactions(b, transaction_validator, wsv)

\* CandidateBlock::revalidate
CandidateBlock_revalidate(b, transaction_validator, wsv, latest_block, block_height, overflow_checks) ==
    IF CandidateBlock_is_empty(b)
    THEN Err("EmptyBlock", "Block is empty", <<>>, <<>>)
    ELSE IF CandidateBlock_has_committed_transactions(b, wsv)
    THEN Err("AlreadyCommitted", "Block has committed transactions", <<>>, <<>>)
    ELSE IF latest_block # b.header.previous_block_hash
    THEN Err("PrevHashMismatch", "Latest block hash mismatch",
             latest_block, b.header.previous_block_hash)
    ELSE IF block_height + 1 > U64_MAX /\ overflow_checks
    THEN Panic
    ELSE IF (block_height + 1) % U64Modulus # b.header.height
    THEN Err("HeightMismatch", "Block heights are in an inconsistent state",
             <<(block_height + 1) % U64Modulus>>, <<b.header.height>>)
    ELSE RevalidateTransactions(b, transaction_validator, wsv)

-----------------------------------------------------------------------------
(* The Chain and its iterator *)

None == <<>>
Some(x) == <<x>>

\* the header of ValidSignedBlock::new_dummy
DummyHeader ==
    [timestamp |-> 0, consensus_estimation |-> DEFAULT_CONSENSUS_ESTIMATION_MS,
     height |-> 1, previous_block_hash |-> EmptyChainHash,
     transactions_hash |-> EmptyChainHash,
     rejected_transactions_hash |-> EmptyChainHash,
     genesis_topology |-> <<>>]

\* the block of ValidSignedBlock::new_dummy().commit(), with the header
\* fields set as the tests set them
DummyCommitted(height, timestamp) ==
    Block("Committed", 0,
          [DummyHeader EXCEPT !.height = height, !.timestamp = timestamp],
          <<>>, <<>>,
          {[public_key |-> "K1", payload |-> HashOf(DummyHeader)]}, <<>>)

\* the blocks pushed to the chain: one for each height, and a second one
\* for height 1
PushBlocks ==
    {DummyCommitted(h, 0) : h \in 1..MaxHeight} \cup {DummyCommitted(1, 1)}

\* Chain::new
Chain_new == <<>>

\* Chain::push keeping the block that is stored at the height already
Chain_push_keeping(map, block) ==
    LET height == block.header.height
    IN [h \in DOMAIN map \cup {height} |->
           IF h \in DOMAIN map THEN map[h] ELSE block]

\* Chain::push inserting one above the block's height
Chain_push_above(map, block) ==
    LET height == block.header.height + 1
    IN [h \in DOMAIN map \cup {height} |->
           IF h = height THEN block ELSE map[h]]

\* Chain::push: DashMap::insert at the block's height
Chain_push(map, block) ==
    LET height == block.header.height
    IN [h \in DOMAIN map \cup {height} |->
           IF h = height THEN block ELSE map[h]]

\* Chain::len
Chain_len(map) == Cardinality(DOMAIN map)

\* DashMap::get: a reference to the entry, if there is one
DashMap_get(map, key) ==
    IF key \in DOMAIN map THEN Some([key |-> key, value |-> map[key]]) ELSE None

\* Chain::latest_block looking one below len()
Chain_latest_block_below(map) == DashMap_get(map, Chain_len(map) - 1)

\* Chain::latest_block
Chain_latest_block(map) == DashMap_get(map, Chain_len(map))

\* DashMap::len sums the lengths of the shards, one shard after the other;
\* a key is kept in the shard its hash selects, here the parity of the key
ShardIds == 0..1
DashMap_shard(map, i) == {key \in DOMAIN map : key % 2 = i}

\* the entries counted once shard i was added to those counted before
DashMap_len_step(counted, map, i) ==
    [key \in DOMAIN counted \cup DashMap_shard(map, i) |->
        IF key \in DashMap_shard(map, i) THEN map[key] ELSE counted[key]]

\* Chain::latest_block looking the length up among the entries len() counted
Chain_latest_block_of_counted(counted, map) ==
    DashMap_get(counted, Chain_len(counted))

\* Chain::latest_block with other threads running: len() has counted the
\* entries of counted, the lookup reads the map as it is by then
Chain_latest_block_racing(counted, map) ==
    DashMap_get(map, Chain_len(counted))

\* ChainIterator::new
ChainIterator_new(map) ==
    [pos_front |-> 1, pos_back |-> Chain_len(map)]

\* ChainIterator::is_exhausted
ChainIterator_is_exhausted(it) == it.pos_front > it.pos_back

\* the outcome of an iterator call: the iterator after it, what it returned
\* and whether it panicked on an overflow
Returned(it, ret) == [it |-> it, ret |-> ret, panic |-> FALSE]
Panicked(it) == [it |-> it, ret |-> None, panic |-> TRUE]

\* ChainIterator::next
ChainIterator_next(it, map) ==
    IF ~ChainIterator_is_exhausted(it)
    THEN Returned([it EXCEPT !.pos_front = (@ + 1) % U64Modulus],
                  DashMap_get(map, it.pos_front))
    ELSE Returned(it, None)

\* ChainIterator::nth taking one step too many
ChainIterator_nth_off_by_one(it, n, map, overflow_checks) ==
    ChainIterator_next([it EXCEPT !.pos_front = (@ + n + 1) % U64Modulus], map)

\* ChainIterator::nth
ChainIterator_nth(it, n, map, overflow_checks) ==
    IF it.pos_front + n > U64_MAX /\ overflow_checks
    THEN Panicked(it)
    ELSE ChainIterator_next([it EXCEPT !.pos_front = (@ + n) % U64Modulus], map)

\* ChainIterator::last
ChainIterator_last(it, map) ==
    Returned([it EXCEPT !.pos_front = Chain_len(map)],
             DashMap_get(map, Chain_len(map)))

\* ChainIterator::count counting from pos_front instead of pos_front - 1
ChainIterator_count_from_pos_front(it, map, overflow_checks) ==
    IF Chain_len(map) < it.pos_front /\ overflow_checks
    THEN Panicked(it)
    ELSE Returned(it, Some((Chain_len(map) - it.pos_front) % U64Modulus))

\* ChainIterator::count
ChainIterator_count(it, map, overflow_checks) ==
    IF Chain_len(map) < it.pos_front - 1 /\ overflow_checks
    THEN Panicked(it)
    ELSE Returned(it, Some((Chain_len(map) - (it.pos_front - 1)) % U64Modulus))

\* ChainIterator::size_hint
ChainIterator_size_hint(it, map, overflow_checks) ==
    IF Chain_len(map) < it.pos_front - 1 /\ overflow_checks
    THEN Panicked(it)
    ELSE LET height == (Chain_len(map) - (it.pos_front - 1)) % U64Modulus
         IN Returned(it, <<height, Some(height)>>)

\* ChainIterator::next_back that tests its own position alone
ChainIterator_next_back_to_first(it, map, overflow_checks) ==
    IF it.pos_back >= 1
    THEN Returned([it EXCEPT !.pos_back = (@ - 1) % U64Modulus],
                  DashMap_get(map, it.pos_back))
    ELSE Returned(it, None)

\* ChainIterator::next_back
ChainIterator_next_back(it, map, overflow_checks) ==
    IF ~ChainIterator_is_exhausted(it)
    THEN IF it.pos_back < 1 /\ overflow_checks
         THEN Panicked(it)
         ELSE Returned([it EXCEPT !.pos_back = (@ - 1) % U64Modulus],
                       DashMap_get(map, it.pos_back))
    ELSE Returned(it, None)

\* ChainIterator::nth_back
ChainIterator_nth_back(it, n, map, overflow_checks) ==
    IF it.pos_back < n /\ overflow_checks
    THEN Panicked(it)
    ELSE ChainIterator_next_back([it EXCEPT !.pos_back = (@ - n) % U64Modulus],
                                 map, overflow_checks)

\* chain.iter().skip(k).count(): Skip::count advances by nth(k - 1) and
\* counts the rest, or answers 0 when nth found nothing
Skip_count(it, k, map, overflow_checks) ==
    IF k > 0
    THEN LET skipped == ChainIterator_nth(it, k - 1, map, overflow_checks)
         IN IF skipped.panic THEN skipped
            ELSE IF skipped.ret = None THEN Returned(skipped.it, Some(0))
            ELSE ChainIterator_count(skipped.it, map, overflow_checks)
    ELSE ChainIterator_count(it, map, overflow_checks)

-----------------------------------------------------------------------------
(* Inputs of the block operations *)

RECURSIVE SeqsUpTo(_, _)
\* the sequences over S of length at most n
SeqsUpTo(S, n) ==
    IF n = 0 THEN {<<>>}
    ELSE LET shorter == SeqsUpTo(S, n - 1)
         IN shorter \cup
            {Append(q, x) : q \in shorter, x \in S}

NoRepetition(q) == \A i, j \in 1..Len(q) : i # j => q[i] # q[j]

\* the transaction lists a pending block is made of (accepted transactions)
TxLists ==
    {[i \in 1..Len(q) |-> Tx(q[i], "Accepted", "")] :
        q \in {r \in SeqsUpTo(Txs, MaxTxs) : NoRepetition(r)}}

\* the header of ValidSignedBlock::new_dummy
\* latest block hashes handed to chain and revalidate: the empty chain's and
\* the hash of a first block
LatestHashes == {Zeroed, HashOf(DummyHeader)}
\* heights handed to PendingBlock::chain, a u64
ChainHeights == {0, 1, U64_MAX}
\* heights handed to revalidate: the length of the local chain
LatestHeights == {0, 1}
\* whether the build checks arithmetic overflow (debug) or wraps (release)
OverflowChecks == BOOLEAN

\* a signature that does not verify against any header hash
Forged(k) == [public_key |-> k, payload |-> Zeroed]

\* what a candidate decoded from the wire may be: a sent candidate with one
\* field altered on the way
WireVersions(b) ==
    { [b EXCEPT !.header.transactions_hash =
                    MerkleRootOrZero(<<Tx(2, "Signed", "")>>)],
      [b EXCEPT !.header.rejected_transactions_hash =
                    MerkleRootOrZero(<<Tx(2, "Signed", "")>>)],
      [b EXCEPT !.header.height = 2],
      [b EXCEPT !.header.previous_block_hash = HashOf(DummyHeader)],
      [b EXCEPT !.transactions = <<>>],
      [b EXCEPT !.signatures = {Forged("K1")}],
      [b EXCEPT !.signatures = SignaturesOf_insert(@, Forged("K2"))] } \ {b}

\* committed blocks decoded from storage or from the block stream
DecodedCommittedBlocks ==
    {Block("Committed", 0, [DummyHeader EXCEPT !.height = h],
           <<Tx(1, "Valid", "")>>, <<>>, {Forged("K1")}, <<>>) : h \in {1, 2}}

-----------------------------------------------------------------------------
(* State: the block in flight, its history, the last operation *)

Args(key_pair, validator, wsv, latest_block, block_height, genesis_topology) ==
    [key_pair |-> key_pair, validator |-> validator, wsv |-> wsv,
     latest_block |-> latest_block, block_height |-> block_height,
     genesis_topology |-> genesis_topology]

NoArgs == Args("", NoValidator, NoWsv, Zeroed, 0, <<>>)

\* hist.origin: "new" for a block made by PendingBlock::new and carried by
\* the transitions alone, "wire" for a decoded one; hist.env: what validate
\* ran with; hist.chained: the arguments of chain (<<>> for chain_first);
\* hist.sent: the block the candidate under revalidation was converted from;
\* hist.trips: how many revalidations the block has passed
NoHist ==
    [origin |-> "none", env |-> NoEnv, chained |-> <<>>, sent |-> NoBlock,
     trips |-> 0]

\* no event was projected from the block since the last operation
NoEvents == <<>>

NoOp ==
    [op |-> "none", pre |-> NoBlock, args |-> NoArgs, res |-> Ok(NoBlock),
     events |-> NoEvents]

chainvars == <<blocks, iter, itop, readers>>

\* an operation consumes blk; its result is the new blk, a failure drops it
Apply(op, args, res) ==
    /\ blk' = IF res.ok THEN res.block ELSE NoBlock
    /\ hist' = [hist EXCEPT
                  !.env = IF op = "validate"
                          THEN [validator |-> args.validator, wsv |-> args.wsv]
                          ELSE @,
                  !.chained = IF op = "chain"
                              THEN <<args.block_height, args.latest_block>>
                              ELSE @,
                  !.sent = IF res.ok /\ res.block.state = "Candidate"
                           THEN blk
                           ELSE IF op = "revalidate" THEN @ ELSE NoBlock,
                  !.trips = IF op = "revalidate" /\ res.ok
                            THEN @ + 1 ELSE @]
    /\ lastop' = [op |-> op, pre |-> blk, args |-> args, res |-> res,
                  events |-> NoEvents]
    /\ UNCHANGED chainvars

\* a behaviour follows one block value from its construction on
New ==
    /\ blk.state = "None" /\ lastop.op = "none"
    /\ \E txs \in TxLists, ev \in EventLists, ts \in Timestamps :
          /\ blk' = PendingBlock_new(txs, ev, ts)
          /\ hist' = [NoHist EXCEPT !.origin = "new"]
          /\ lastop' = [op |-> "new", pre |-> blk, args |-> NoArgs,
                        res |-> Ok(PendingBlock_new(txs, ev, ts)),
                        events |-> NoEvents]
    /\ UNCHANGED chainvars

Chain ==
    /\ blk.state = "Pending"
    /\ \E height \in ChainHeights, prev \in LatestHashes, oc \in OverflowChecks :
          Apply("chain", Args("", NoValidator, NoWsv, prev, height, <<>>),
                PendingBlock_chain(blk, height, prev, oc))

ChainFirstWithGenesisTopology ==
    /\ blk.state = "Pending"
    /\ \E t \in Topologies :
          Apply("chain_first_with_genesis_topology",
                Args("", NoValidator, NoWsv, Zeroed, 0, <<t>>),
                Ok(PendingBlock_chain_first_with_genesis_topology(blk, t)))

ChainFirst ==
    /\ blk.state = "Pending"
    /\ Apply("chain_first", NoArgs, Ok(PendingBlock_chain_first(blk)))

Validate ==
    /\ blk.state = "Chained"
    /\ \E e \in ValidateEnvs :
          Apply("validate", Args("", e.validator, e.wsv, Zeroed, 0, <<>>),
                Ok(ChainedBlock_validate(blk, e.validator, e.wsv)))

SignValid ==
    /\ blk.state = "Valid"
    /\ \E k \in FirstSigners :
          Apply("ValidBlock::sign", Args(k, NoValidator, NoWsv, Zeroed, 0, <<>>),
                ValidBlock_sign(blk, k))

SignValidSigned ==
    /\ blk.state = "ValidSigned"
    /\ \E k \in Keys \cup {BadKey} :
          Apply("ValidSignedBlock::sign",
                Args(k, NoValidator, NoWsv, Zeroed, 0, <<>>),
                ValidSignedBlock_sign(blk, k))

Commit ==
    /\ blk.state = "ValidSigned"
    /\ Apply("commit", NoArgs, Ok(ValidSignedBlock_commit(blk)))

CommittedIntoValidSigned ==
    /\ blk.state = "Committed"
    /\ Apply("ValidSignedBlock::from", NoArgs,
             Ok(ValidSignedBlock_from_CommittedBlock(blk)))

ValidSignedIntoCandidate ==
    /\ blk.state = "ValidSigned"
    /\ hist.trips < MaxTrips
    /\ Apply("CandidateBlock::from(ValidSignedBlock)", NoArgs,
             Ok(CandidateBlock_from_ValidSignedBlock(blk)))

CommittedIntoCandidate ==
    /\ blk.state = "Committed"
    /\ hist.trips < MaxTrips
    /\ Apply("CandidateBlock::from(CommittedBlock)", NoArgs,
             Ok(CandidateBlock_from_CommittedBlock(blk)))

Revalidate ==
    /\ blk.state = "Candidate"
    /\ \E e \in Envs, latest \in LatestHashes, h \in LatestHeights,
          oc \in OverflowChecks :
          Apply("revalidate", Args("", e.validator, e.wsv, latest, h, <<>>),
                CandidateBlock_revalidate(blk, e.validator, e.wsv, latest, h, oc))

\* Decode of a CandidateBlock that was altered on the wire
DecodeCandidate ==
    /\ blk.state = "Candidate"
    /\ hist.origin = "new"
    /\ \E b \in WireVersions(blk) :
          /\ blk' = b
          /\ hist' = [hist EXCEPT !.origin = "wire"]
          /\ lastop' = [op |-> "decode", pre |-> blk, args |-> NoArgs,
                        res |-> Ok(b), events |-> NoEvents]
    /\ UNCHANGED chainvars

\* Decode of a CommittedBlock read from storage or the block stream
DecodeCommitted ==
    /\ blk.state = "None" /\ lastop.op = "none"
    /\ \E b \in DecodedCommittedBlocks :
          /\ blk' = b
          /\ hist' = [NoHist EXCEPT !.origin = "wire"]
          /\ lastop' = [op |-> "decode", pre |-> blk, args |-> NoArgs,
                        res |-> Ok(b), events |-> NoEvents]
    /\ UNCHANGED chainvars

\* Vec<Event>::from(&block): the block is borrowed and stays as it is
ValidSignedEvents ==
    /\ blk.state = "ValidSigned"
    /\ lastop' = [lastop EXCEPT !.events = ValidSignedBlock_events(blk)]
    /\ UNCHANGED <<blk, hist, chainvars>>

CommittedEvents ==
    /\ blk.state = "Committed"
    /\ lastop' = [lastop EXCEPT !.events = CommittedBlock_events(blk)]
    /\ UNCHANGED <<blk, hist, chainvars>>

\* no iterator: none was made yet, or the last one was consumed
NoIter ==
    [alive |-> FALSE, pos_front |-> 0, pos_back |-> 0, calls |-> 0,
     last |-> [op |-> "none", n |-> 0], walk |-> FALSE,
     fronts |-> <<>>, backs |-> <<>>, dirty |-> FALSE, snap |-> Chain_new]
NoItOp ==
    [op |-> "none", n |-> 0, ret |-> None, panic |-> FALSE, pre |-> NoIter,
     len |-> 0, chain |-> Chain_new, pushed |-> None]

\* the reading threads; one that has made no call yet
Readers == {"r1", "r2"}
IdleReader ==
    [op |-> "none", pc |-> "idle", shard |-> 0, counted |-> Chain_new,
     start |-> 0, ret |-> None, end |-> 0,
     it |-> [pos_front |-> 0, pos_back |-> 0], s |-> 0, yields |-> <<>>]

Init ==
    /\ blk = NoBlock
    /\ hist = NoHist
    /\ lastop = NoOp
    /\ blocks = Chain_new
    /\ iter = NoIter
    /\ itop = NoItOp
    /\ readers = [r \in Readers |-> IdleReader]

Next ==
    \/ New
    \/ Chain
    \/ ChainFirstWithGenesisTopology
    \/ ChainFirst
    \/ Validate
    \/ SignValid
    \/ SignValidSigned
    \/ Commit
    \/ CommittedIntoValidSigned
    \/ ValidSignedIntoCandidate
    \/ CommittedIntoCandidate
    \/ Revalidate
    \/ DecodeCandidate
    \/ DecodeCommitted
    \/ ValidSignedEvents
    \/ CommittedEvents

Spec == Init /\ [][Next]_vars

-----------------------------------------------------------------------------
(* State of the chain: the map of blocks, the iterator made of it with its *)
(* history (calls made, last call, heights yielded while only next and     *)
(* next_back were called, pushes since it was made, the chain as it was    *)
(* when the iterator was made), the last chain call with the chain and the *)
(* iterator it was made on                                                 *)

blockvars == <<blk, hist, lastop, readers>>

NthArgs == 0..(MaxHeight - 1)
SkipArgs == 0..(MaxHeight + 2)

\* the height an iterator call yielded, 0 for None
Yielded(ret) == IF ret = None THEN 0 ELSE ret[1].value.header.height

\* a call on the iterator: consuming calls and panics end the iterator
IterCall(op, n, out, consumes) ==
    /\ itop' = [op |-> op, n |-> n, ret |-> out.ret, panic |-> out.panic,
                pre |-> iter, len |-> Chain_len(blocks), chain |-> blocks,
                pushed |-> None]
    /\ iter' =
         IF out.panic \/ consumes THEN NoIter
         ELSE LET walks == iter.walk /\ op \in {"next", "next_back"}
              IN [iter EXCEPT
                    !.pos_front = out.it.pos_front,
                    !.pos_back = out.it.pos_back,
                    !.calls = @ + 1,
                    !.last = [op |-> op, n |-> n],
                    !.walk = walks,
                    !.fronts = IF ~walks THEN <<>>
                               ELSE IF op = "next"
                                    THEN Append(@, Yielded(out.ret)) ELSE @,
                    !.backs = IF ~walks THEN <<>>
                              ELSE IF op = "next_back"
                                   THEN Append(@, Yielded(out.ret)) ELSE @]
    /\ UNCHANGED <<blocks, blockvars>>

Callable == iter.alive /\ iter.calls < MaxCalls

Position == [pos_front |-> iter.pos_front, pos_back |-> iter.pos_back]

Push ==
    \E block \in PushBlocks :
        /\ blocks' = Chain_push(blocks, block)
        /\ iter' = IF iter.alive THEN [iter EXCEPT !.dirty = TRUE] ELSE iter
        /\ itop' = [op |-> "push", n |-> block.header.height, ret |-> None,
                    panic |-> FALSE, pre |-> iter, len |-> Chain_len(blocks),
                    chain |-> blocks, pushed |-> Some(block)]
        /\ UNCHANGED blockvars

\* a call on the chain that leaves the chain and the iterator alone
ChainCall(op, ret) ==
    /\ itop' = [op |-> op, n |-> 0, ret |-> ret, panic |-> FALSE,
                pre |-> iter, len |-> Chain_len(blocks), chain |-> blocks,
                pushed |-> None]
    /\ UNCHANGED <<blocks, iter, blockvars>>

LatestBlock == ChainCall("latest_block", Chain_latest_block(blocks))

ChainLen == ChainCall("len", Some(Chain_len(blocks)))

Iter ==
    /\ ~iter.alive
    /\ iter' = [NoIter EXCEPT
                  !.alive = TRUE,
                  !.pos_front = ChainIterator_new(blocks).pos_front,
                  !.pos_back = ChainIterator_new(blocks).pos_back,
                  !.walk = TRUE,
                  !.snap = blocks]
    /\ itop' = [op |-> "iter", n |-> 0, ret |-> None, panic |-> FALSE,
                pre |-> iter, len |-> Chain_len(blocks), chain |-> blocks,
                pushed |-> None]
    /\ UNCHANGED <<blocks, blockvars>>

IterNext ==
    /\ Callable
    /\ IterCall("next", 0, ChainIterator_next(Position, blocks), FALSE)

IterNth ==
    /\ Callable
    /\ \E n \in NthArgs :
          \E out \in {ChainIterator_nth(Position, n, blocks, overflow_checks) :
                         overflow_checks \in OverflowChecks} :
             IterCall("nth", n, out, FALSE)

IterLast ==
    /\ Callable
    /\ IterCall("last", 0, ChainIterator_last(Position, blocks), TRUE)

IterCount ==
    /\ Callable
    /\ \E out \in {ChainIterator_count(Position, blocks, overflow_checks) :
                      overflow_checks \in OverflowChecks} :
          IterCall("count", 0, out, TRUE)

IterSizeHint ==
    /\ Callable
    /\ \E out \in {ChainIterator_size_hint(Position, blocks, overflow_checks) :
                      overflow_checks \in OverflowChecks} :
          IterCall("size_hint", 0, out, FALSE)

IterNextBack ==
    /\ Callable
    /\ \E out \in {ChainIterator_next_back(Position, blocks, overflow_checks) :
                      overflow_checks \in OverflowChecks} :
          IterCall("next_back", 0, out, FALSE)

IterNthBack ==
    /\ Callable
    /\ \E n \in NthArgs :
          \E out \in {ChainIterator_nth_back(Position, n, blocks,
                                             overflow_checks) :
                         overflow_checks \in OverflowChecks} :
             IterCall("nth_back", n, out, FALSE)

\* chain.iter().skip(k).count() on the iterator just made
IterSkipCount ==
    /\ Callable /\ iter.calls = 0
    /\ \E k \in SkipArgs :
          \E out \in {Skip_count(Position, k, blocks, overflow_checks) :
                         overflow_checks \in OverflowChecks} :
             IterCall("skip.count", k, out, TRUE)

NextChain ==
    \/ Push
    \/ LatestBlock
    \/ ChainLen
    \/ Iter
    \/ IterNext
    \/ IterNth
    \/ IterLast
    \/ IterCount
    \/ IterSizeHint
    \/ IterNextBack
    \/ IterNthBack
    \/ IterSkipCount

SpecChain == Init /\ [][NextChain]_vars

-----------------------------------------------------------------------------
(* One writer and the readers on a shared Chain.  The writer pushes the    *)
(* heights 1, 2, 3, .. in order, one DashMap::insert each.  A reader calls *)
(* latest_block or iterates forward; each access of the map is one step:   *)
(* len() reads the shards one by one, get() reads one entry.  A reader     *)
(* records the length of the chain when its call started (start) and when  *)
(* it returned (end), the length an iterator sampled (s) and the heights   *)
(* its calls of next yielded, 0 for None.                                  *)

seqvars == <<blk, hist, lastop, iter, itop>>

ReaderOps == {"latest_block", "iter"}

\* the single writer: Chain::push of the next height
WriterPush ==
    /\ Chain_len(blocks) < MaxPushed
    /\ blocks' = Chain_push(blocks, DummyCommitted(Chain_len(blocks) + 1, 0))
    /\ UNCHANGED <<readers, seqvars>>

\* a reader enters latest_block or iter
ReaderCall ==
    \E r \in Readers, op \in ReaderOps :
        /\ readers[r].pc \in {"idle", "returned", "exhausted"}
        /\ readers' = [readers EXCEPT ![r] =
                          [IdleReader EXCEPT !.op = op, !.pc = "len",
                                             !.start = Chain_len(blocks)]]
        /\ UNCHANGED <<blocks, seqvars>>

\* blocks.len(): the next shard is counted; after the last shard
\* latest_block goes on to its lookup, iter returns ChainIterator::new
ReaderLen ==
    \E r \in Readers :
        LET rd == readers[r]
            counted == DashMap_len_step(rd.counted, blocks, rd.shard)
        IN /\ rd.pc = "len"
           /\ readers' = [readers EXCEPT ![r] =
                 IF rd.shard + 1 \in ShardIds
                 THEN [rd EXCEPT !.shard = @ + 1, !.counted = counted]
                 ELSE IF rd.op = "latest_block"
                 THEN [rd EXCEPT !.pc = "get", !.counted = counted]
                 ELSE [rd EXCEPT !.pc = "next", !.counted = Chain_new,
                                 !.it = ChainIterator_new(counted),
                                 !.s = Chain_len(counted)]]
           /\ UNCHANGED <<blocks, seqvars>>

\* blocks.get(&len) of latest_block, which then returns
ReaderLookup ==
    \E r \in Readers :
        LET rd == readers[r]
        IN /\ rd.pc = "get"
           /\ readers' = [readers EXCEPT ![r] =
                 [rd EXCEPT !.pc = "returned", !.counted = Chain_new,
                            !.ret = Chain_latest_block_racing(rd.counted,
                                                              blocks),
                            !.end = Chain_len(blocks)]]
           /\ UNCHANGED <<blocks, seqvars>>

\* next() on the reader's iterator, called until it returned None after the
\* sampled length
ReaderNext ==
    \E r \in Readers :
        LET rd == readers[r]
            out == ChainIterator_next(rd.it, blocks)
        IN /\ rd.pc = "next"
           /\ readers' = [readers EXCEPT ![r] =
                 [rd EXCEPT !.it = out.it,
                            !.yields = Append(@, Yielded(out.ret)),
                            !.pc = IF Len(rd.yields) >= rd.s
                                   THEN "exhausted" ELSE "next"]]
           /\ UNCHANGED <<blocks, seqvars>>

NextConcurrent ==
    \/ WriterPush
    \/ ReaderCall
    \/ ReaderLen
    \/ ReaderLookup
    \/ ReaderNext

SpecConcurrent == Init /\ [][NextConcurrent]_vars

-----------------------------------------------------------------------------
(* Properties of the block life cycle *)

pre == lastop.pre
args == lastop.args
res == lastop.res

\* the hash method of the state a block is in
BlockHash(b) ==
    CASE b.state = "Chained" -> ChainedBlock_hash(b)
      [] b.state = "Valid" -> ValidBlock_hash(b)
      [] b.state = "ValidSigned" -> ValidSignedBlock_hash(b)
      [] b.state = "Committed" -> CommittedBlock_hash(b)
      [] b.state = "Candidate" -> CandidateBlock_hash(b)
      [] OTHER -> Zeroed

RetagOps ==
    {"ValidBlock::sign", "ValidSignedBlock::sign", "commit",
     "ValidSignedBlock::from", "CandidateBlock::from(ValidSignedBlock)",
     "CandidateBlock::from(CommittedBlock)", "revalidate"}

\* C1: a retag transition (ValidBlock::sign, ValidSignedBlock::sign, commit,
\* Committed -> ValidSigned, ValidSigned/Committed -> Candidate, a successful
\* revalidate) leaves the header as it was, and the hash of the block in its
\* new state is the hash of that header, equal to the hash before.
C1_HashStableAcrossRetags ==
    (lastop.op \in RetagOps /\ res.ok) =>
        /\ blk.header = pre.header
        /\ BlockHash(blk) = BlockHash(pre)
        /\ BlockHash(blk) = HashOf(pre.header)

C1_Witness ==
    /\ lastop.op = "revalidate" /\ res.ok
    /\ blk.state = "ValidSigned"
    /\ Cardinality(blk.signatures) = 2
    /\ blk.transactions # <<>>

C3_RevalidateOkImpliesChecks ==
    (lastop.op = "revalidate" /\ res.ok) =>
        LET limits == args.validator.transaction_limits
            genesis == pre.header.height = 1
            Admitted(tx) == AcceptedTransaction_from_transaction(tx, limits)
        IN /\ Len(pre.transactions) + Len(pre.rejected_transactions) > 0
           /\ \A i \in 1..Len(pre.transactions) :
                 ~is_in_blockchain(pre.transactions[i], args.wsv)
           /\ \A i \in 1..Len(pre.rejected_transactions) :
                 ~is_in_blockchain(pre.rejected_transactions[i], args.wsv)
           /\ pre.header.previous_block_hash = args.latest_block
           /\ pre.header.height = args.block_height + 1
           /\ pre.header.transactions_hash = MerkleRootOrZero(pre.transactions)
           /\ pre.header.rejected_transactions_hash =
                 MerkleRootOrZero(pre.rejected_transactions)
           /\ \A i \in 1..Len(pre.transactions) :
                 /\ Admitted(pre.transactions[i]).ok
                 /\ TransactionValidator_validate(
                        Admitted(pre.transactions[i]).tx, genesis, args.wsv).ok
           /\ \A i \in 1..Len(pre.rejected_transactions) :
                 /\ Admitted(pre.rejected_transactions[i]).ok
                 /\ ~TransactionValidator_validate(
                        Admitted(pre.rejected_transactions[i]).tx, genesis,
                        args.wsv).ok

C3_Witness ==
    /\ lastop.op = "revalidate" /\ res.ok
    /\ pre.transactions # <<>>
    /\ pre.rejected_transactions # <<>>
    /\ pre.header.height = 2

\* the checks of revalidate in the order of the claim, each as what a
\* candidate b violates under the arguments a
Violates(k, b, a) ==
    LET limits == a.validator.transaction_limits
        genesis == b.header.height = 1
        Admitted(tx) == AcceptedTransaction_from_transaction(tx, limits)
        Validates(tx) ==
            /\ Admitted(tx).ok
            /\ TransactionValidator_validate(Admitted(tx).tx, genesis, a.wsv).ok
        Rejects(tx) ==
            /\ Admitted(tx).ok
            /\ ~TransactionValidator_validate(Admitted(tx).tx, genesis, a.wsv).ok
    IN CASE k = 1 -> Len(b.transactions) = 0 /\ Len(b.rejected_transactions) = 0
         [] k = 2 -> \E tx \in {b.transactions[i] : i \in 1..Len(b.transactions)}
                          \cup {b.rejected_transactions[i] :
                                   i \in 1..Len(b.rejected_transactions)} :
                        tx.payload \in a.wsv.committed
         [] k = 3 -> b.header.previous_block_hash # a.latest_block
         [] k = 4 -> b.header.height # a.block_height + 1
         [] k = 5 -> b.header.transactions_hash # MerkleRootOrZero(b.transactions)
         [] k = 6 -> b.header.rejected_transactions_hash
                        # MerkleRootOrZero(b.rejected_transactions)
         [] k = 7 -> \E i \in 1..Len(b.transactions) : ~Validates(b.transactions[i])
         [] k = 8 -> \E i \in 1..Len(b.rejected_transactions) :
                        ~Rejects(b.rejected_transactions[i])

\* the check an error of revalidate belongs to (0: no error)
CheckOf(r) ==
    CASE r.ok -> 0
      [] r.err = "EmptyBlock" -> 1
      [] r.err = "AlreadyCommitted" -> 2
      [] r.err = "PrevHashMismatch" -> 3
      [] r.err = "HeightMismatch" -> 4
      [] r.err = "TxRootMismatch" -> 5
      [] r.err = "RejectedRootMismatch" -> 6
      [] r.err = "AcceptedTxRevalidationFailed" -> 7
      [] r.err \in {"RejectedTxRevalidatesClean", "TxAdmissionFailed"} -> 8
      [] OTHER -> 9

\* C4: the error of revalidate is that of the earliest violated check in the
\* order EmptyBlock, AlreadyCommitted, PrevHashMismatch, HeightMismatch,
\* TxRootMismatch, RejectedRootMismatch, AcceptedTxRevalidationFailed,
\* RejectedTxRevalidatesClean; a height mismatch reports latest_height + 1
\* as expected and the header's height as actual.
C4_EarliestViolatedCheck ==
    lastop.op = "revalidate" =>
        /\ \A k \in 1..8 :
              CheckOf(res) = k <=>
                  /\ Violates(k, pre, args)
                  /\ \A j \in 1..(k - 1) : ~Violates(j, pre, args)
        /\ res.ok <=> \A k \in 1..8 : ~Violates(k, pre, args)
        /\ res.err = "HeightMismatch" =>
              /\ res.expected = <<args.block_height + 1>>
              /\ res.actual = <<pre.header.height>>
        /\ res.err = "PrevHashMismatch" =>
              /\ res.expected = args.latest_block
              /\ res.actual = pre.header.previous_block_hash

\* a height-2 candidate with the right previous hash, revalidated with
\* latest_height = 0, and with a wrong transactions root as well
C4_Witness ==
    /\ lastop.op = "revalidate"
    /\ res.err = "HeightMismatch"
    /\ res.expected = <<1>> /\ res.actual = <<2>>
    /\ pre.header.previous_block_hash = args.latest_block
    /\ Violates(5, pre, args)

\* a round trip: the candidate made of a ValidSigned block that chain,
\* validate and sign built is revalidated with the validator and world state
\* the block was validated with, its own previous hash and its height - 1
RoundTrip ==
    /\ lastop.op = "revalidate"
    /\ hist.origin = "new"
    /\ hist.sent.state = "ValidSigned"
    /\ hist.trips = (IF res.ok THEN 1 ELSE 0)
    /\ args.validator = hist.env.validator
    /\ args.wsv = hist.env.wsv
    /\ args.latest_block = hist.sent.header.previous_block_hash
    /\ args.block_height + 1 = hist.sent.header.height

SameBlock ==
    /\ res.ok
    /\ blk.state = "ValidSigned"
    /\ blk.header = hist.sent.header
    /\ blk.transactions = hist.sent.transactions
    /\ blk.rejected_transactions = hist.sent.rejected_transactions
    /\ blk.signatures = hist.sent.signatures

\* C5 as claimed: every round trip gives back a ValidSigned block with the
\* same header, the same accepted and rejected lists in the same order and
\* the same signatures.
C5_RoundTrip == RoundTrip => SameBlock

\* C5 as amended: a round trip gives back the same block exactly when the
\* block has a transaction, none of its transactions is in the blockchain
\* according to the world state, and each of them passes admission under the
\* validator's limits; otherwise revalidate fails.
C5_RoundTripWhenRevalidates ==
    RoundTrip =>
        LET sent == hist.sent
            all == sent.transactions \o sent.rejected_transactions
        IN SameBlock <=>
              /\ all # <<>>
              /\ \A i \in 1..Len(all) :
                    /\ all[i].payload \notin args.wsv.committed
                    /\ all[i].payload <=
                          args.validator.transaction_limits.max_instruction_number

C5_Witness ==
    /\ RoundTrip /\ SameBlock
    /\ Len(blk.transactions) = 1
    /\ Len(blk.rejected_transactions) = 1
    /\ Cardinality(blk.signatures) = 2

\* C6: in a Valid block made by validate, and in the ValidSigned and
\* Committed blocks made from it, the header's two Merkle roots are those of
\* the block's accepted and rejected lists (zero for an empty list).
C6_MerkleRootsBindLists ==
    (hist.origin = "new" /\ blk.state \in {"Valid", "ValidSigned", "Committed"}) =>
        /\ blk.header.transactions_hash = MerkleRootOrZero(blk.transactions)
        /\ blk.header.rejected_transactions_hash =
              MerkleRootOrZero(blk.rejected_transactions)
        /\ blk.transactions = <<>> => blk.header.transactions_hash = Zeroed
        /\ blk.rejected_transactions = <<>> =>
              blk.header.rejected_transactions_hash = Zeroed

C6_Witness ==
    /\ hist.origin = "new" /\ blk.state = "Committed"
    /\ Len(blk.transactions) = 1
    /\ Len(blk.rejected_transactions) = 1

GenesisPredicate(header) ==
    header.height = 1 <=> header.previous_block_hash = Zeroed

LifeCycleStates == {"Chained", "Valid", "ValidSigned", "Committed"}

\* C7 as claimed: every Chained, Valid or Committed block made by chain,
\* chain_first or chain_first_with_genesis_topology with any arguments has
\* height 1 exactly when its previous block hash is zero.
C7_GenesisPredicateAnyArguments ==
    (hist.origin = "new" /\ blk.state \in LifeCycleStates) =>
        GenesisPredicate(blk.header)

\* C7 as amended: that holds of the blocks of chain_first and
\* chain_first_with_genesis_topology, and of a block of chain(height,
\* prev_hash) exactly when the arguments agree: height = 0 iff prev_hash is
\* zero.
C7_GenesisPredicateAgreeingArguments ==
    (hist.origin = "new" /\ blk.state \in LifeCycleStates) =>
        IF hist.chained = <<>>
        THEN blk.header.height = 1 /\ blk.header.previous_block_hash = Zeroed
        ELSE GenesisPredicate(blk.header)
                <=> (hist.chained[1] = 0 <=> hist.chained[2] = Zeroed)

C7_Witness ==
    /\ hist.origin = "new" /\ blk.state = "Committed"
    /\ hist.chained # <<>>
    /\ hist.chained[1] = 1 /\ hist.chained[2] # Zeroed
    /\ blk.header.height = 2

AllVerify(b) ==
    \A s \in b.signatures : SignatureOf_verify(s, HashOf(b.header))

Signers(b) == {s.public_key : s \in b.signatures}

\* what ValidSignedBlock::sign is claimed to do to the block
SignInsertsBySigner ==
    LET signature == [public_key |-> args.key_pair,
                      payload |-> HashOf(pre.header)]
    IN /\ args.key_pair \in Signers(pre) => blk.signatures = pre.signatures
       /\ args.key_pair \notin Signers(pre) =>
             blk.signatures = pre.signatures \cup {signature}
       /\ blk.header = pre.header
       /\ blk.transactions = pre.transactions
       /\ blk.rejected_transactions = pre.rejected_transactions
       /\ AllVerify(blk)

-----------------------------------------------------------------------------
(* Properties of the chain *)

Dense(map) == DOMAIN map = 1..Chain_len(map)

\* the last call was made on an iterator just made, the chain unchanged
OnFresh == itop.pre.alive /\ itop.pre.calls = 0 /\ ~itop.pre.dirty

ReturnsHeight(height) ==
    /\ ~itop.panic
    /\ itop.ret = Some([key |-> height, value |-> blocks[height]])
    /\ blocks[height].header.height = height

Max(a, b) == IF a >= b THEN a ELSE b

\* C8: on a chain holding heights 1..len, a fresh iterator's nth(i) with
\* i < len returns the block of height i + 1 and its nth_back(i) the block
\* of height len - i; calling only next yields 1, 2, .., len and then None,
\* calling only next_back yields len, .., 2, 1 and then None.
C8_ChainOrdering ==
    Dense(blocks) =>
      /\ (itop.op = "nth" /\ OnFresh /\ itop.n < itop.len)
            => ReturnsHeight(itop.n + 1)
      /\ (itop.op = "nth_back" /\ OnFresh /\ itop.n < itop.len)
            => ReturnsHeight(itop.len - itop.n)
      /\ (iter.alive /\ ~iter.dirty /\ iter.walk /\ iter.backs = <<>>)
            => iter.fronts =
                 [i \in 1..iter.calls |->
                    IF i <= Chain_len(blocks) THEN i ELSE 0]
      /\ (iter.alive /\ ~iter.dirty /\ iter.walk /\ iter.fronts = <<>>)
            => iter.backs =
                 [i \in 1..iter.calls |->
                    IF i <= Chain_len(blocks)
                    THEN Chain_len(blocks) - i + 1 ELSE 0]

\* C8 happens: a full forward iteration over heights 1..MaxHeight has ended
C8_Witness ==
    /\ Dense(blocks) /\ Chain_len(blocks) = MaxHeight
    /\ iter.alive /\ ~iter.dirty /\ iter.walk
    /\ iter.fronts = [i \in 1..(MaxHeight + 1) |->
                        IF i <= MaxHeight THEN i ELSE 0]

\* the count a fresh iterator gives after it was advanced by k elements
CountAfterAdvancing(k) ==
    /\ ~itop.panic
    /\ itop.ret = Some(Max(0, itop.len - k))

\* C9: on a chain holding heights 1..len, for every k >= 0, advancing a fresh
\* iterator by k elements (by skip(k), or by nth(k - 1) when k > 0) and then
\* calling count() gives max(0, len - k).
C9_CountAfterAdvancingByK ==
    Dense(blocks) =>
      /\ (itop.op = "skip.count" /\ OnFresh) => CountAfterAdvancing(itop.n)
      /\ (itop.op = "count" /\ OnFresh) => CountAfterAdvancing(0)
      /\ (/\ itop.op = "count"
          /\ itop.pre.alive /\ itop.pre.calls = 1 /\ ~itop.pre.dirty
          /\ itop.pre.last.op = "nth")
            => CountAfterAdvancing(itop.pre.last.n + 1)

\* C9 through the Skip adapter alone: skip(k).count() on a fresh iterator
\* gives max(0, len - k), for every k
C9_SkipCount ==
    (Dense(blocks) /\ itop.op = "skip.count" /\ OnFresh)
        => CountAfterAdvancing(itop.n)

\* C9 happens: skip(k).count() was called with k > len + 1
C9_Witness ==
    /\ Dense(blocks) /\ Chain_len(blocks) = 1
    /\ itop.op = "skip.count" /\ OnFresh /\ itop.n = 3
    /\ itop.ret = Some(0)

\* the calls on a ChainIterator
IterOps ==
    {"next", "nth", "last", "count", "size_hint", "next_back", "nth_back"}

\* what a call on the iterator it can return when the chain is map
Outcomes(op, n, it, map) ==
    {CASE op = "next" -> ChainIterator_next(it, map)
       [] op = "nth" -> ChainIterator_nth(it, n, map, overflow_checks)
       [] op = "last" -> ChainIterator_last(it, map)
       [] op = "count" -> ChainIterator_count(it, map, overflow_checks)
       [] op = "size_hint" -> ChainIterator_size_hint(it, map, overflow_checks)
       [] op = "next_back" -> ChainIterator_next_back(it, map, overflow_checks)
       [] op = "nth_back" -> ChainIterator_nth_back(it, n, map, overflow_checks)
     : overflow_checks \in OverflowChecks}

\* C11: blocks pushed after the iterator was made are invisible to it: each
\* of next, next_back, nth, nth_back, last, count and size_hint returns what
\* it would return on the chain as it was when the iterator was made.
C11_PushesInvisible ==
    (itop.op \in IterOps) =>
        \E out \in Outcomes(itop.op, itop.n,
                            [pos_front |-> itop.pre.pos_front,
                             pos_back |-> itop.pre.pos_back],
                            itop.pre.snap) :
            /\ itop.ret = out.ret
            /\ itop.panic = out.panic

\* C11 fails: an iterator was made of a chain of one block, a block was
\* pushed at height 2, and count() answers 2
C11_CountSeesPush ==
    /\ itop.op = "count" /\ itop.pre.calls = 0
    /\ Chain_len(itop.pre.snap) = 1
    /\ itop.ret = Some(2)

\* C12 as claimed: after any sequence of pushes the occupied heights are
\* exactly 1..len().
C12_KeysDense == Dense(blocks)

\* C12 as amended: the empty chain is dense, and a push keeps a dense chain
\* dense when the height of the pushed block is at most len() + 1; no other
\* chain operation changes the map.  A push at a greater height is accepted
\* and leaves a gap.
C12_KeysDenseWhenPushedInOrder ==
    /\ (itop.op = "none") => Dense(blocks)
    /\ (itop.op = "push" /\ Dense(itop.chain) /\ itop.n <= itop.len + 1)
          => Dense(blocks)
    /\ (itop.op = "push" /\ Dense(itop.chain) /\ itop.n > itop.len + 1)
          => ~Dense(blocks)
    /\ (itop.op # "push") => blocks = itop.chain

\* C12 happens: a block was pushed at height len() + 1 of a dense chain
C12_Witness ==
    /\ itop.op = "push" /\ Dense(itop.chain)
    /\ itop.len = 1 /\ itop.n = 2
    /\ DOMAIN blocks = {1, 2}

\* C13: latest_block returns the entry at key len() if there is one and
\* None otherwise; on a chain holding heights 1..n, n >= 1, that is the block
\* of height n, the greatest height of the chain; on the empty chain it is
\* None.
C13_LatestBlock ==
    (itop.op = "latest_block") =>
        LET len == Chain_len(blocks)
        IN /\ ~itop.panic
           /\ itop.ret = IF len \in DOMAIN blocks
                         THEN Some([key |-> len, value |-> blocks[len]])
                         ELSE None
           /\ (Dense(blocks) /\ len >= 1) =>
                 /\ itop.ret # None
                 /\ Yielded(itop.ret) = len
                 /\ \A h \in DOMAIN blocks : h <= len
           /\ (len = 0) => itop.ret = None

\* C13 happens: latest_block on the chain holding heights 1..MaxHeight
C13_Witness ==
    /\ itop.op = "latest_block"
    /\ DOMAIN blocks = 1..MaxHeight
    /\ Yielded(itop.ret) = MaxHeight

\* C14: len() never decreases, whatever chain operation is made; a push
\* at an unoccupied height adds 1 to len(), a push at an occupied height
\* leaves len() as it is and replaces the block stored there by the new one;
\* either push succeeds and leaves every other entry as it was.
C14_LenMonotone ==
    /\ Chain_len(blocks) >= itop.len
    /\ (itop.op = "len") => itop.ret = Some(Chain_len(blocks))
    /\ (itop.op = "push") =>
          /\ ~itop.panic
          /\ Chain_len(blocks) =
                IF itop.n \in DOMAIN itop.chain THEN itop.len ELSE itop.len + 1
          /\ DOMAIN blocks = DOMAIN itop.chain \cup {itop.n}
          /\ Some(blocks[itop.n]) = itop.pushed
          /\ \A h \in DOMAIN itop.chain \ {itop.n} : blocks[h] = itop.chain[h]

\* C14 happens: a block was pushed at height 1 of a chain that held another
\* block there and a block at height 2
C14_Witness ==
    /\ itop.op = "push" /\ itop.n = 1
    /\ DOMAIN itop.chain = {1, 2}
    /\ itop.chain[1] # blocks[1]
    /\ Chain_len(blocks) = 2

\* C15: no chain operation fails, and none overflows or underflows
\* pos_front, pos_back or the count it computes: no call panics, pos_back
\* never leaves 0..len as captured, and count and size_hint answer at most
\* len().
C15_ChainOperationsComplete ==
    /\ ~itop.panic
    /\ iter.alive => iter.pos_back <= Chain_len(iter.snap)
    /\ (itop.op \in {"count", "size_hint", "skip.count"}) =>
          itop.ret[1] <= itop.len

\* C15 fails: nth_back(1) on the iterator of an empty chain panics
C15_NthBackUnderflows ==
    /\ itop.op = "nth_back" /\ itop.n = 1
    /\ itop.len = 0 /\ itop.pre.calls = 0
    /\ itop.panic

-----------------------------------------------------------------------------
(* Event projection *)

\* the events projected from the block in flight, and the sizes of its lists
projected == lastop.events
accepted == Len(blk.transactions)
rejected == Len(blk.rejected_transactions)

\* C16: the events projected from a ValidSigned block with a accepted and r
\* rejected transactions are a + r + 1 events: a Transaction/Validating
\* event with the transaction's hash for each accepted transaction in list
\* order, then one for each rejected transaction in list order, then one
\* Block/Validating event with the block hash, which is the last event.
C16_ValidSignedEvents ==
    (blk.state = "ValidSigned" /\ projected # NoEvents) =>
        /\ Len(projected) = accepted + rejected + 1
        /\ \A i \in 1..accepted :
              projected[i] =
                  [entity_kind |-> "Transaction",
                   status |-> [kind |-> "Validating", reason |-> ""],
                   hash |-> TxHash(blk.transactions[i])]
        /\ \A j \in 1..rejected :
              projected[accepted + j] =
                  [entity_kind |-> "Transaction",
                   status |-> [kind |-> "Validating", reason |-> ""],
                   hash |-> TxHash(blk.rejected_transactions[j])]
        /\ projected[accepted + rejected + 1] =
              [entity_kind |-> "Block",
               status |-> [kind |-> "Validating", reason |-> ""],
               hash |-> HashOf(blk.header)]

\* the events of a ValidSigned block with an accepted and a rejected
\* transaction were projected
C16_Witness ==
    /\ blk.state = "ValidSigned" /\ projected # NoEvents
    /\ accepted >= 1 /\ rejected >= 1
    /\ TxHash(blk.transactions[1]) # TxHash(blk.rejected_transactions[1])

\* C17: the events projected from a Committed block are a
\* Transaction/Committed event for each accepted transaction, then a
\* Transaction/Rejected event carrying the rejection reason for each
\* rejected transaction, then one Block/Committed event with the block
\* hash; every transaction event precedes the block event.
C17_CommittedEvents ==
    (blk.state = "Committed" /\ projected # NoEvents) =>
        /\ Len(projected) = accepted + rejected + 1
        /\ \A i \in 1..accepted :
              projected[i] =
                  [entity_kind |-> "Transaction",
                   status |-> [kind |-> "Committed", reason |-> ""],
                   hash |-> TxHash(blk.transactions[i])]
        /\ \A j \in 1..rejected :
              projected[accepted + j] =
                  [entity_kind |-> "Transaction",
                   status |-> [kind |-> "Rejected",
                               reason |->
                                   blk.rejected_transactions[j].rejection_reason],
                   hash |-> TxHash(blk.rejected_transactions[j])]
        /\ projected[accepted + rejected + 1] =
              [entity_kind |-> "Block",
               status |-> [kind |-> "Committed", reason |-> ""],
               hash |-> HashOf(blk.header)]
        /\ \A i \in 1..Len(projected) :
              projected[i].entity_kind = "Block" => i = Len(projected)

\* the events of a Committed block with an accepted transaction and a
\* transaction rejected for a stated reason were projected
C17_Witness ==
    /\ blk.state = "Committed" /\ projected # NoEvents
    /\ accepted >= 1 /\ rejected >= 1
    /\ blk.rejected_transactions[1].rejection_reason # ""

-----------------------------------------------------------------------------
(* Revalidation failures *)

\* some check of revalidate is violated by the candidate and the arguments
SomeCheckFails == \E k \in 1..8 : Violates(k, pre, args)

\* C18: when any check of revalidate fails the result is an error and no
\* ValidSigned block comes out of the call, neither the whole block nor one
\* holding the transactions that did revalidate; nothing of the chain is
\* written.
C18_RevalidateAllOrNothing ==
    (lastop.op = "revalidate" /\ SomeCheckFails) =>
        /\ ~res.ok /\ res.err # "" /\ res.cause # ""
        /\ res.block = NoBlock
        /\ blk = NoBlock
        /\ blocks = Chain_new /\ iter = NoIter /\ itop = NoItOp

\* a candidate whose first accepted transaction revalidates and whose
\* second one does not, all the checks before passing
C18_Witness ==
    /\ lastop.op = "revalidate"
    /\ Violates(7, pre, args)
    /\ \A k \in 1..6 : ~Violates(k, pre, args)
    /\ Len(pre.transactions) = 2
    /\ RevalidateAccepted(pre.transactions[1], args.validator,
                          is_genesis(pre.header), args.wsv).ok

\* the transactions of a list that the world state has in the blockchain
Replayed(txs) == {i \in 1..Len(txs) : is_in_blockchain(txs[i], args.wsv)}

\* C19: revalidate of a non-empty candidate fails with AlreadyCommitted when
\* a transaction of its accepted list or of its rejected list is in the
\* blockchain according to the world state, whatever the previous hash,
\* height and Merkle root checks would say.
C19_ReplayGuard ==
    (/\ lastop.op = "revalidate"
     /\ ~CandidateBlock_is_empty(pre)
     /\ Replayed(pre.transactions) \cup Replayed(pre.rejected_transactions) # {})
        => ~res.ok /\ res.err = "AlreadyCommitted"

\* a candidate whose only replayed transaction is in its rejected list and
\* whose previous hash, height and Merkle roots all pass was revalidated
C19_Witness ==
    /\ lastop.op = "revalidate"
    /\ Replayed(pre.transactions) = {}
    /\ Replayed(pre.rejected_transactions) # {}
    /\ \A k \in 3..6 : ~Violates(k, pre, args)

-----------------------------------------------------------------------------
(* Heights of chained blocks *)

ChainOps == {"chain", "chain_first", "chain_first_with_genesis_topology"}

\* C20: every header made by chain(height, previous_block_hash), for any
\* 64-bit height, or by chain_first has a height of at least 1, and the
\* header made by chain has the argument height plus one, the sum taken
\* without wrap-around.
C20_ChainedHeight ==
    lastop.op \in ChainOps =>
        /\ res.ok
        /\ res.block.header.height >= 1
        /\ lastop.op = "chain" =>
              res.block.header.height = args.block_height + 1

\* chain(u64::MAX, previous_block_hash) built without overflow checks
\* returned a header of height 0
C20_ChainWrapsToZero ==
    /\ lastop.op = "chain"
    /\ args.block_height = U64_MAX
    /\ res.ok
    /\ blk.state = "Chained"
    /\ blk.header.height = 0

-----------------------------------------------------------------------------
(* Validation and chaining of a pending block *)

\* the position of the transaction of payload p in a list without
\* repetition, 0 when it is not there
PositionOf(p, txs) ==
    IF \E k \in 1..Len(txs) : txs[k].payload = p
    THEN CHOOSE k \in 1..Len(txs) : txs[k].payload = p
    ELSE 0

\* the list keeps the relative order its transactions have in the input
InInputOrder(txs, input) ==
    \A i, j \in 1..Len(txs) :
        i < j => PositionOf(txs[i].payload, input)
                    < PositionOf(txs[j].payload, input)

\* C21: validate never fails and partitions the input transactions: each
\* one is judged by the validator with is_genesis = (header.height = 1) and
\* is in exactly one of the accepted and rejected lists, both lists keep
\* the input order, their lengths add up to the input's (rejected ones are
\* retained), and the header apart from the two Merkle roots and the event
\* recommendations are unchanged.
C21_ValidatePartitions ==
    lastop.op = "validate" =>
        LET input == pre.transactions
            txs == res.block.transactions
            rejects == res.block.rejected_transactions
            genesis == pre.header.height = 1
        IN /\ res.ok /\ res.block.state = "Valid" /\ blk = res.block
           /\ Len(txs) + Len(rejects) = Len(input)
           /\ \A i \in 1..Len(input) :
                 LET verdict ==
                         TransactionValidator_validate(input[i], genesis,
                                                       args.wsv)
                     k == PositionOf(input[i].payload, txs)
                     n == PositionOf(input[i].payload, rejects)
                 IN /\ (k > 0) # (n > 0)
                    /\ verdict.ok <=> k > 0
                    /\ k > 0 => txs[k] = verdict.tx
                    /\ n > 0 => rejects[n] = verdict.tx
           /\ InInputOrder(txs, input) /\ InInputOrder(rejects, input)
           /\ [res.block.header EXCEPT
                  !.transactions_hash = pre.header.transactions_hash,
                  !.rejected_transactions_hash =
                      pre.header.rejected_transactions_hash] = pre.header
           /\ res.block.event_recommendations = pre.event_recommendations

\* a block of two transactions, not the first of its chain, was validated
\* and the validator rejected the first and accepted the second
C21_Witness ==
    /\ lastop.op = "validate"
    /\ pre.header.height # 1
    /\ Len(pre.transactions) = 2
    /\ Len(blk.transactions) = 1 /\ Len(blk.rejected_transactions) = 1
    /\ blk.rejected_transactions[1].payload = pre.transactions[1].payload
    /\ pre.event_recommendations # <<>>

\* C22: the header chain(height, previous_block_hash) returns has the
\* 64-bit sum height + 1 as its height, the previous hash given, no genesis
\* topology, both Merkle roots zero, the default consensus estimation and
\* the pending block's timestamp; chain_first and
\* chain_first_with_genesis_topology give height 1, the zero previous hash
\* and the topology supplied (none for chain_first); all three carry the
\* transactions and the event recommendations over as they are.
C22_ChainConstructors ==
    (lastop.op \in ChainOps /\ res.ok) =>
        LET header == res.block.header
        IN /\ res.block.state = "Chained" /\ blk = res.block
           /\ header.timestamp = pre.timestamp
           /\ header.consensus_estimation = DEFAULT_CONSENSUS_ESTIMATION_MS
           /\ header.transactions_hash = Zeroed
           /\ header.rejected_transactions_hash = Zeroed
           /\ res.block.transactions = pre.transactions
           /\ res.block.event_recommendations = pre.event_recommendations
           /\ lastop.op = "chain" =>
                 /\ header.height = (args.block_height + 1) % U64Modulus
                 /\ header.previous_block_hash = args.latest_block
                 /\ header.genesis_topology = <<>>
           /\ lastop.op = "chain_first" =>
                 /\ header.height = 1
                 /\ header.previous_block_hash = Zeroed
                 /\ header.genesis_topology = <<>>
           /\ lastop.op = "chain_first_with_genesis_topology" =>
                 /\ header.height = 1
                 /\ header.previous_block_hash = Zeroed
                 /\ header.genesis_topology = args.genesis_topology
                 /\ header.genesis_topology # <<>>

\* a pending block of two transactions with event recommendations was
\* chained on a block of height 1 whose hash is not the zero hash
C22_Witness ==
    /\ lastop.op = "chain" /\ res.ok
    /\ args.block_height = 1
    /\ args.latest_block # Zeroed
    /\ pre.timestamp # 0
    /\ Len(pre.transactions) = 2
    /\ pre.event_recommendations # <<>>

-----------------------------------------------------------------------------
(* Revalidation of the transactions of a candidate *)

\* the candidate and the arguments pass the checks that come before the
\* transactions are revalidated
ReachesTransactions == \A k \in 1..6 : ~Violates(k, pre, args)

\* admission and validation of one transaction under the arguments
AdmissionOf(tx) ==
    AcceptedTransaction_from_transaction(tx, args.validator.transaction_limits)
ValidationOf(tx) ==
    TransactionValidator_validate(AdmissionOf(tx).tx, pre.header.height = 1,
                                  args.wsv)

\* the accepted transactions that fail admission or validation
FailingAccepted ==
    {i \in 1..Len(pre.transactions) :
        \/ ~AdmissionOf(pre.transactions[i]).ok
        \/ ~ValidationOf(pre.transactions[i]).ok}

FirstFailingAccepted ==
    CHOOSE i \in FailingAccepted : \A j \in FailingAccepted : i <= j

\* the calls of res.calls made for element i of a list
CallsFor(list, i, call) ==
    {k \in 1..Len(res.calls) :
        /\ res.calls[k].list = list
        /\ res.calls[k].index = i
        /\ res.calls[k].call = call}

\* C23: revalidation of the accepted transactions stops at the first
\* failure: the transactions are admitted and validated one at a time in
\* list order, after the first accepted transaction that fails admission
\* or validation no later accepted transaction and no rejected transaction
\* is admitted or validated, and that failure is the error returned.
C23_StopsAtFirstFailure ==
    (lastop.op = "revalidate" /\ ReachesTransactions /\ FailingAccepted # {}) =>
        LET first == FirstFailingAccepted
            tx == pre.transactions[first]
        IN /\ ~res.ok /\ res.err = "AcceptedTxRevalidationFailed"
           /\ res.cause = IF AdmissionOf(tx).ok
                          THEN "Failed to validate transaction"
                          ELSE "TxAdmissionFailed"
           /\ \A k \in 1..Len(res.calls) :
                 /\ res.calls[k].list = "transactions"
                 /\ res.calls[k].index <= first
                 /\ res.calls[k].payload
                       = pre.transactions[res.calls[k].index].payload
           /\ \A k, l \in 1..Len(res.calls) :
                 k < l => res.calls[k].index <= res.calls[l].index
           /\ \A i \in 1..first :
                 /\ Cardinality(CallsFor("transactions", i,
                                         "from_transaction")) = 1
                 /\ Cardinality(CallsFor("transactions", i, "validate"))
                       = (IF AdmissionOf(pre.transactions[i]).ok THEN 1 ELSE 0)
                 /\ \A k \in CallsFor("transactions", i, "from_transaction"),
                       l \in CallsFor("transactions", i, "validate") : k < l

\* a candidate of two accepted transactions was revalidated and the first
\* of them failed validation
C23_Witness ==
    /\ lastop.op = "revalidate" /\ ReachesTransactions
    /\ Len(pre.transactions) = 2
    /\ FailingAccepted # {}
    /\ FirstFailingAccepted = 1
    /\ AdmissionOf(pre.transactions[1]).ok

\* the accepted transactions all revalidate: the rejected ones are next
ReachesRejected == ReachesTransactions /\ FailingAccepted = {}

\* the rejected transactions that pass admission and validate
CleanRejected ==
    {i \in 1..Len(pre.rejected_transactions) :
        /\ AdmissionOf(pre.rejected_transactions[i]).ok
        /\ ValidationOf(pre.rejected_transactions[i]).ok}

\* the rejected transactions that fail admission
UnadmittedRejected ==
    {i \in 1..Len(pre.rejected_transactions) :
        ~AdmissionOf(pre.rejected_transactions[i]).ok}

\* on success the rejected list holds the validator's rejected outputs in
\* the candidate's order
RejectedAgain ==
    res.ok =>
        /\ Len(res.block.rejected_transactions) = Len(pre.rejected_transactions)
        /\ \A i \in 1..Len(pre.rejected_transactions) :
              /\ ~ValidationOf(pre.rejected_transactions[i]).ok
              /\ res.block.rejected_transactions[i]
                    = ValidationOf(pre.rejected_transactions[i]).tx

\* C24: when all the earlier checks pass and some transaction of the
\* rejected list passes admission and validates, revalidate fails with
\* RejectedTxRevalidatesClean; on success the rejected list of the result
\* holds the validator's rejected outputs in the candidate's order.
C24_RejectedMustBeRejected ==
    (lastop.op = "revalidate" /\ ReachesRejected) =>
        /\ CleanRejected # {} =>
              ~res.ok /\ res.err = "RejectedTxRevalidatesClean"
        /\ RejectedAgain

\* C24 as amended: the same, the error being that of the first
\* transaction of the rejected list that fails: RejectedTxRevalidatesClean
\* when it validates, the admission failure when it is not admitted.
C24_FirstFailingRejected ==
    (lastop.op = "revalidate" /\ ReachesRejected) =>
        LET failing == CleanRejected \cup UnadmittedRejected
            first == CHOOSE i \in failing : \A j \in failing : i <= j
        IN /\ failing # {} =>
                 /\ ~res.ok
                 /\ res.err = IF first \in CleanRejected
                              THEN "RejectedTxRevalidatesClean"
                              ELSE "TxAdmissionFailed"
           /\ CleanRejected # {} => ~res.ok
           /\ RejectedAgain

\* a candidate whose first rejected transaction is not admitted and whose
\* second one validates was revalidated
C24_Witness ==
    /\ lastop.op = "revalidate" /\ ReachesRejected
    /\ Len(pre.rejected_transactions) = 2
    /\ 1 \in UnadmittedRejected
    /\ 2 \in CleanRejected
    /\ res.err = "TxAdmissionFailed"

\* C25: a candidate with at least one transaction in its two lists, none of
\* them in the blockchain, the previous hash and the height matching, both
\* Merkle roots matching, accepted transactions that all admit and validate
\* and rejected ones that all admit and are rejected, is accepted by
\* revalidate: a ValidSigned block is returned; EmptyBlock is returned only
\* when both lists are empty.
C25_RevalidateCompleteness ==
    lastop.op = "revalidate" =>
        /\ (/\ Len(pre.transactions) + Len(pre.rejected_transactions) >= 1
            /\ Replayed(pre.transactions) = {}
            /\ Replayed(pre.rejected_transactions) = {}
            /\ pre.header.previous_block_hash = args.latest_block
            /\ pre.header.height = args.block_height + 1
            /\ pre.header.transactions_hash = MerkleRootOrZero(pre.transactions)
            /\ pre.header.rejected_transactions_hash
                  = MerkleRootOrZero(pre.rejected_transactions)
            /\ FailingAccepted = {}
            /\ CleanRejected = {} /\ UnadmittedRejected = {})
           => /\ res.ok
              /\ res.block.state = "ValidSigned"
              /\ blk = res.block
        /\ res.err = "EmptyBlock" =>
              pre.transactions = <<>> /\ pre.rejected_transactions = <<>>

\* a candidate with no accepted transaction and a rejected one was accepted
\* by revalidate
C25_Witness ==
    /\ lastop.op = "revalidate" /\ res.ok
    /\ pre.transactions = <<>>
    /\ pre.rejected_transactions # <<>>
    /\ blk.state = "ValidSigned"
    /\ blk.rejected_transactions # <<>>

-----------------------------------------------------------------------------
(* Commit and its reverse *)

\* C26: commit is a retag without checks and the conversion of a Committed
\* block to ValidSigned is its inverse: commit always succeeds and changes
\* nothing but the state, converting v.commit() back gives v in header,
\* accepted and rejected transactions, event recommendations and signature
\* set, and converting a Committed block c and committing again gives c.
C26_CommitAndBack ==
    /\ lastop.op = "commit" =>
          /\ res.ok /\ blk = res.block
          /\ blk = [pre EXCEPT !.state = "Committed"]
          /\ ValidSignedBlock_from_CommittedBlock(blk) = pre
    /\ lastop.op = "ValidSignedBlock::from" =>
          /\ res.ok /\ blk = res.block
          /\ blk = [pre EXCEPT !.state = "ValidSigned"]
          /\ ValidSignedBlock_commit(blk) = pre

\* a committed block with two signatures, a rejected transaction and event
\* recommendations was converted back to ValidSigned
C26_Witness ==
    /\ lastop.op = "ValidSignedBlock::from"
    /\ hist.origin = "new"
    /\ Cardinality(blk.signatures) = 2
    /\ blk.transactions # <<>>
    /\ blk.rejected_transactions # <<>>
    /\ blk.event_recommendations # <<>>

-----------------------------------------------------------------------------
(* The signature set from ValidSigned on *)

SignedStates == {"ValidSigned", "Committed", "Candidate"}

\* the operations that make or carry a signed block
SignedOps ==
    {"ValidBlock::sign", "ValidSignedBlock::sign", "commit",
     "ValidSignedBlock::from", "CandidateBlock::from(ValidSignedBlock)",
     "CandidateBlock::from(CommittedBlock)", "revalidate"}

\* C27: every ValidSigned, Committed or Candidate block reached from a new
\* block by ValidBlock::sign, ValidSignedBlock::sign, commit, the
\* conversions Committed -> ValidSigned and -> Candidate and successful
\* revalidations has at least one signature, and none of these operations
\* removes a signer or a signature that was there before it.
C27_SignaturesAppendOnly ==
    (hist.origin = "new" /\ blk.state \in SignedStates) =>
        /\ blk.signatures # {}
        /\ lastop.op \in SignedOps
        /\ pre.state \in SignedStates =>
              /\ Signers(pre) \subseteq Signers(blk)
              /\ pre.signatures \subseteq blk.signatures

\* a block signed by two signers was committed, converted to a candidate
\* and revalidated
C27_Witness ==
    /\ hist.origin = "new"
    /\ lastop.op = "revalidate" /\ res.ok
    /\ hist.sent.state = "Committed"
    /\ Cardinality(Signers(pre)) = 2
    /\ Signers(blk) = Signers(pre)

-----------------------------------------------------------------------------
(* What is left of an iteration *)

\* the chain the last call ran on is dense and is the one the iterator was
\* made on
OnUnmodifiedDenseChain ==
    /\ itop.pre.alive
    /\ ~itop.pre.dirty
    /\ itop.pre.snap = itop.chain
    /\ Dense(itop.chain)

\* the number of items an iterator at these positions still yields
Remaining(it) ==
    IF it.pos_front > it.pos_back THEN 0 ELSE it.pos_back - it.pos_front + 1

\* C28: after any sequence of next, next_back, nth and nth_back on an
\* iterator over a dense chain that is not modified meanwhile, size_hint
\* returns (r, Some(r)) and count returns r, r being the number of items
\* the iterator would still yield; items consumed from the back are not
\* counted.
C28_SizeHintAndCount ==
    (itop.op \in {"size_hint", "count"} /\ OnUnmodifiedDenseChain) =>
        /\ ~itop.panic
        /\ itop.ret = IF itop.op = "count"
                      THEN Some(Remaining(itop.pre))
                      ELSE <<Remaining(itop.pre), Some(Remaining(itop.pre))>>

\* on a chain of two blocks next_back yielded block 2, and size_hint then
\* returned (2, Some(2)) with one item left
C28_SizeHintIgnoresBack ==
    /\ itop.op = "size_hint" /\ OnUnmodifiedDenseChain
    /\ Chain_len(itop.chain) = 2
    /\ itop.pre.calls = 1
    /\ itop.pre.last.op = "next_back"
    /\ itop.pre.backs = <<2>>
    /\ Remaining(itop.pre) = 1
    /\ ~itop.panic
    /\ itop.ret = <<2, Some(2)>>

-----------------------------------------------------------------------------
(* Iteration from both ends *)

NonZero(h) == h # 0

\* the heights an iterator yielded from the front and from the back
YieldedFront(it) == SelectSeq(it.fronts, NonZero)
YieldedBack(it) == SelectSeq(it.backs, NonZero)
Yields(it) == Len(YieldedFront(it)) + Len(YieldedBack(it))

\* only next and next_back were called on this iterator, on a dense chain
\* that was not modified since the iterator was made
WalkOnDenseChain(it, map) ==
    /\ it.alive /\ ~it.dirty /\ it.walk
    /\ it.snap = map
    /\ Dense(map)

\* C29: under any interleaving of next and next_back on one iterator over a
\* dense chain of n blocks no block is yielded twice: the heights from the
\* front are 1, 2, .. ascending, those from the back n, n - 1, ..
\* descending, together each height of 1..n at most once and all of them
\* after n calls; exactly the first n calls return Some, and every later
\* call returns None and leaves the iterator where it is.
C29_NoBlockTwice ==
    WalkOnDenseChain(iter, blocks) =>
        LET n == Chain_len(blocks)
            front == YieldedFront(iter)
            back == YieldedBack(iter)
        IN /\ \A i \in 1..Len(front) : front[i] = i
           /\ \A i \in 1..Len(back) : back[i] = n - i + 1
           /\ Len(front) + Len(back) = (IF iter.calls <= n THEN iter.calls ELSE n)
           /\ \A i \in 1..Len(front), j \in 1..Len(back) : front[i] # back[j]
           /\ (itop.op \in {"next", "next_back"} /\ itop.pre.alive) =>
                 /\ ~itop.panic
                 /\ itop.ret = None <=> Yields(itop.pre) = n
                 /\ itop.ret = None =>
                       /\ iter.pos_front = itop.pre.pos_front
                       /\ iter.pos_back = itop.pre.pos_back
                       /\ Yields(iter) = Yields(itop.pre)

\* on a chain of two blocks next yielded block 1, next_back yielded block
\* 2, and a third call returned None
C29_Witness ==
    /\ WalkOnDenseChain(iter, blocks)
    /\ Chain_len(blocks) = 2
    /\ iter.calls = 3
    /\ YieldedFront(iter) = <<1>>
    /\ YieldedBack(iter) = <<2>>
    /\ itop.op \in {"next", "next_back"}
    /\ itop.ret = None

\* C30: last returns the final item that forward iteration from the
\* iterator's current state would yield: the block at the back position
\* when the iterator is not exhausted, None when it is; it never returns a
\* block that next_back has yielded.
C30_LastIsFinalItem ==
    (itop.op = "last" /\ OnUnmodifiedDenseChain) =>
        /\ ~itop.panic
        /\ IF ChainIterator_is_exhausted(itop.pre)
           THEN itop.ret = None
           ELSE itop.ret = DashMap_get(itop.chain, itop.pre.pos_back)
        /\ \A i \in 1..Len(itop.pre.backs) :
              itop.pre.backs[i] # 0 => Yielded(itop.ret) # itop.pre.backs[i]

\* on a chain of two blocks next_back yielded block 2, and last then
\* returned block 2 again, the final item to come being block 1
C30_LastReturnsYieldedBlock ==
    /\ itop.op = "last" /\ OnUnmodifiedDenseChain
    /\ Chain_len(itop.chain) = 2
    /\ itop.pre.calls = 1
    /\ itop.pre.backs = <<2>>
    /\ itop.pre.pos_front = 1 /\ itop.pre.pos_back = 1
    /\ Yielded(itop.ret) = 2

-----------------------------------------------------------------------------
(* Readers running while the writer pushes *)

\* C31: with one writer pushing heights 1, 2, 3, .. in order and readers
\* running concurrently, a latest_block call that started after the push of
\* height 1 never returns None, and the height it returns is at least the
\* chain length when the call started and at most the chain length when it
\* returned; a forward iteration yields the heights 1..s without gaps, s
\* being the length sampled when the iterator was made, and None after them.
C31_ReadersDuringPushes ==
    \A r \in Readers :
        LET rd == readers[r]
        IN /\ (rd.op = "latest_block" /\ rd.pc = "returned" /\ rd.start >= 1)
                => /\ rd.ret # None
                   /\ rd.start <= Yielded(rd.ret)
                   /\ Yielded(rd.ret) <= rd.end
           /\ (rd.op = "iter" /\ rd.pc \in {"next", "exhausted"})
                => \A i \in 1..Len(rd.yields) :
                      rd.yields[i] = IF i <= rd.s THEN i ELSE 0

\* a latest_block call started at length 1 and returned block 2 when the
\* length was 3, and the other reader's iterator sampled length 2 and
\* yielded 1, 2 and None while the chain grew to 3
C31_Witness ==
    \E r, q \in Readers :
        /\ readers[r].op = "latest_block" /\ readers[r].pc = "returned"
        /\ readers[r].start = 1
        /\ Yielded(readers[r].ret) = 2
        /\ readers[r].end = 3
        /\ readers[q].op = "iter" /\ readers[q].pc = "exhausted"
        /\ readers[q].s = 2
        /\ readers[q].yields = <<1, 2, 0>>
        /\ Chain_len(blocks) = 3

====
